---- MODULE Spec2Model ----
(***************************************************************************)
(* CARPAS records engine: the relational store (models.py), the           *)
(* transaction boundary (db.py: session_scope, init_db), the service      *)
(* layer (services.py) and the duplicate reconciliation (maintenance.py). *)
(*                                                                         *)
(* A store is a record of five tables, each a set of rows.  `db` is the   *)
(* committed database; `tx` is what the open session's transaction sees   *)
(* (everything flushed so far); `deleted` is the session's set of objects *)
(* marked with session.delete() that no flush has written yet.            *)
(* `last` records how the boundary that ended last found the session:     *)
(* whether its view differed from the database, and its pending deletes.  *)
(* Strings are sequences of one-character strings, so that strip() and    *)
(* upper() are computed and not assumed.                                   *)
(***************************************************************************)
EXTENDS Integers, Sequences, FiniteSets, TLC

VARIABLES db, tx, deleted, session, ops, raised, last, pc, run, legacy, dialect,
          result, peer

vars == <<db, tx, deleted, session, ops, raised, last, pc, run, legacy, dialect,
          result, peer>>

----------------------------------------------------------------------------
(* Bounds of the model *)

MaxStudentId == 2
MaxCourseId == 2
MaxEnrollId == 2
MaxAttId == 1
MaxMarkId == 1
MaxClasses == 1
MaxMarkVal == 1
MaxOps == 1

----------------------------------------------------------------------------
(* Strings *)

RECURSIVE LStrip(_)
LStrip(s) ==
    IF s = <<>> THEN s
    ELSE IF Head(s) = " " THEN LStrip(Tail(s)) ELSE s

RECURSIVE RStrip(_)
RStrip(s) ==
    IF s = <<>> THEN s
    ELSE IF s[Len(s)] = " " THEN RStrip(SubSeq(s, 1, Len(s) - 1)) ELSE s

\* variant: the text is stored as typed
StripNone(s) == s

Strip(s) == RStrip(LStrip(s))

UpperChar(c) ==
    CASE c = "x" -> "X"
      [] c = "c" -> "C"
      [] c = "d" -> "D"
      [] OTHER -> c

\* variant: the text is stored in the case it was typed
UpperNone(s) == s

Upper(s) == [i \in 1..Len(s) |-> UpperChar(s[i])]

\* Python: `x.strip() if x else None` / `x.strip() or default`
Exam == <<"E", "x", "a", "m">>

RollInputs == {<<"x">>, <<"X">>, <<"x", " ">>}
CodeInputs == {<<"c">>, <<" ", "C">>, <<"d">>}
NameInputs == {<<"n">>}
AssessInputs == {<<"q">>, <<" ">>}

\* texts that are empty once trimmed, as a caller of the service layer may pass
BlankInputs == {<<>>, <<" ">>}

----------------------------------------------------------------------------
(* The store *)

EmptyStore ==
    [students |-> {}, courses |-> {}, enrollments |-> {},
     attendance |-> {}, marks |-> {}]

Student(id, roll_no, name) == [id |-> id, roll_no |-> roll_no, name |-> name]

Course(id, code, name) == [id |-> id, code |-> code, name |-> name]

Enrollment(id, student_id, course_id) ==
    [id |-> id, student_id |-> student_id, course_id |-> course_id]

Attendance(id, enrollment_id, total, attended) ==
    [id |-> id, enrollment_id |-> enrollment_id,
     total_classes |-> total, attended_classes |-> attended]

Mark(id, enrollment_id, assessment, obtained, maximum) ==
    [id |-> id, enrollment_id |-> enrollment_id, assessment |-> assessment,
     marks_obtained |-> obtained, max_marks |-> maximum]

Ids(rows) == {r.id : r \in rows}

MaxOf(S) == CHOOSE m \in S : \A n \in S : n <= m

MinOf(S) == CHOOSE m \in S : \A n \in S : m <= n

\* INTEGER PRIMARY KEY without AUTOINCREMENT: the next rowid is max(rowid) + 1
NextId(rows) == IF rows = {} THEN 1 ELSE MaxOf(Ids(rows)) + 1

\* session.get(Model, id): the row with that primary key, or none
Get(rows, id) == {r \in rows : r.id = id}

\* The uniqueness constraints of the schema
UniqueRoll(st) ==
    \A a, b \in st.students : a.roll_no = b.roll_no => a.id = b.id

UniqueCode(st) ==
    \A a, b \in st.courses : a.code = b.code => a.id = b.id

UniquePair(st) ==
    \A a, b \in st.enrollments :
        (a.student_id = b.student_id /\ a.course_id = b.course_id) => a.id = b.id

UniqueAttendance(st) ==
    \A a, b \in st.attendance : a.enrollment_id = b.enrollment_id => a.id = b.id

UniqueOk(st) ==
    UniqueRoll(st) /\ UniqueCode(st) /\ UniquePair(st) /\ UniqueAttendance(st)

\* Every foreign key names an existing row
ForeignKeysOk(st) ==
    /\ \A e \in st.enrollments :
          /\ e.student_id \in Ids(st.students)
          /\ e.course_id \in Ids(st.courses)
    /\ \A a \in st.attendance : a.enrollment_id \in Ids(st.enrollments)
    /\ \A m \in st.marks : m.enrollment_id \in Ids(st.enrollments)

----------------------------------------------------------------------------
(* session.delete() and flush *)

NoDeletes == {}

\* relationship(cascade="all, delete-orphan"): session.delete(obj) loads the
\* children from the database as it stands and marks them deleted too
CascadeEnrollment(st, e) ==
    {<<"enrollment", e>>}
    \cup {<<"attendance", a.id>> : a \in {x \in st.attendance : x.enrollment_id = e}}
    \cup {<<"mark", m.id>> : m \in {x \in st.marks : x.enrollment_id = e}}

\* variant: the delete of a Student reaches the Courses it is enrolled in
CascadeStudentAndCourses(st, s) ==
    {<<"student", s>>}
    \cup {<<"course", e.course_id>> : e \in {x \in st.enrollments : x.student_id = s}}
    \cup UNION {CascadeEnrollment(st, e.id) :
                  e \in {x \in st.enrollments : x.student_id = s}}

CascadeStudent(st, s) ==
    {<<"student", s>>}
    \cup UNION {CascadeEnrollment(st, e.id) :
                  e \in {x \in st.enrollments : x.student_id = s}}

CascadeCourse(st, c) ==
    {<<"course", c>>}
    \cup UNION {CascadeEnrollment(st, e.id) :
                  e \in {x \in st.enrollments : x.course_id = c}}

DeletedIds(del, kind) == {d[2] : d \in {x \in del : x[1] = kind}}

\* variant: neither cascade reaches the marks table
FlushDeletesKeepMarks(st, del) ==
    LET students == {s \in st.students : s.id \notin DeletedIds(del, "student")}
        courses == {c \in st.courses : c.id \notin DeletedIds(del, "course")}
        enrollments ==
            {e \in st.enrollments :
                /\ e.id \notin DeletedIds(del, "enrollment")
                /\ e.student_id \in Ids(students)
                /\ e.course_id \in Ids(courses)}
    IN  [students |-> students,
         courses |-> courses,
         enrollments |-> enrollments,
         attendance |->
            {a \in st.attendance :
                /\ a.id \notin DeletedIds(del, "attendance")
                /\ a.enrollment_id \in Ids(enrollments)},
         marks |-> {m \in st.marks : <<"mark", m.id>> \notin del
                                        \/ <<"enrollment", m.enrollment_id>> \in del}]

\* flush of the pending deletes: the DELETEs of the marked rows, and the
\* ON DELETE CASCADE of the foreign keys (PRAGMA foreign_keys=ON)
FlushDeletes(st, del) ==
    LET students == {s \in st.students : s.id \notin DeletedIds(del, "student")}
        courses == {c \in st.courses : c.id \notin DeletedIds(del, "course")}
        goneS == Ids(st.students) \ Ids(students)
        goneC == Ids(st.courses) \ Ids(courses)
        enrollments ==
            {e \in st.enrollments :
                /\ e.id \notin DeletedIds(del, "enrollment")
                /\ e.student_id \notin goneS
                /\ e.course_id \notin goneC}
        goneE == Ids(st.enrollments) \ Ids(enrollments)
    IN  [students |-> students,
         courses |-> courses,
         enrollments |-> enrollments,
         attendance |->
            {a \in st.attendance :
                /\ a.id \notin DeletedIds(del, "attendance")
                /\ a.enrollment_id \notin goneE},
         marks |->
            {m \in st.marks :
                /\ m.id \notin DeletedIds(del, "mark")
                /\ m.enrollment_id \notin goneE}]

----------------------------------------------------------------------------
(* The service layer (services.py).  Each function takes the transaction's
   view of the store and the session's pending deletes, and returns the new
   view, the new pending deletes and the error it raises (NoError: none). *)

NoError == "none"
RollExists == "Roll number already exists."
CodeExists == "Course code already exists."
StudentNotFound == "Student not found."
CourseNotFound == "Course not found."
EnrollmentNotFound == "Enrollment not found."
MarkNotFound == "Mark not found."
AlreadyEnrolled == "Student is already enrolled in this course."
AttendanceNegative == "Attendance values must be >= 0."
AttendanceExceeds == "Attended classes cannot exceed total classes."
MaxMarksPositive == "Max marks must be > 0."
MarksRange == "Marks obtained must be between 0 and max marks."
StaleData == "StaleDataError"
StoreFailure == "OperationalError"
IntegrityFailure == "IntegrityError"

ServiceErrors ==
    {RollExists, CodeExists, StudentNotFound, CourseNotFound, EnrollmentNotFound,
     MarkNotFound, AlreadyEnrolled, AttendanceNegative, AttendanceExceeds,
     MaxMarksPositive, MarksRange}

Returns(st, del) == [st |-> st, del |-> del, err |-> NoError]

Raises(st, del, msg) == [st |-> st, del |-> del, err |-> msg]

\* session.flush(): the INSERTs and UPDATEs were applied to `st` by the caller
\* (they are emitted before the DELETEs), then the pending deletes are written
Flushed(st, del) == Returns(FlushDeletes(st, del), NoDeletes)

\* variant: the store accepts a second row with the same roll number
create_student_unchecked(st, del, roll_no, name) ==
    Flushed([st EXCEPT !.students =
                @ \cup {Student(NextId(st.students), Strip(roll_no), Strip(name))}],
            del)

create_student(st, del, roll_no, name) ==
    LET student == Student(NextId(st.students), Strip(roll_no), Strip(name))
    IN  IF \E s \in st.students : s.roll_no = student.roll_no
        THEN Raises(st, del, RollExists)
        ELSE Flushed([st EXCEPT !.students = @ \cup {student}], del)

update_student(st, del, student_id, roll_no, name) ==
    LET found == Get(st.students, student_id)
        student == Student(student_id, Strip(roll_no), Strip(name))
        others == st.students \ found
    IN  IF found = {} THEN Raises(st, del, StudentNotFound)
        ELSE IF <<"student", student_id>> \in del
        THEN Flushed(st, del)   \* a deleted object is not UPDATEd, only DELETEd
        ELSE IF \E s \in others : s.roll_no = student.roll_no
        THEN Raises(st, del, RollExists)
        ELSE Flushed([st EXCEPT !.students = others \cup {student}], del)

delete_student(st, del, student_id) ==
    IF Get(st.students, student_id) = {} THEN Raises(st, del, StudentNotFound)
    ELSE Returns(st, del \cup CascadeStudent(st, student_id))

create_course(st, del, code, name) ==
    LET course == Course(NextId(st.courses), Upper(Strip(code)), Strip(name))
    IN  IF \E c \in st.courses : c.code = course.code
        THEN Raises(st, del, CodeExists)
        ELSE Flushed([st EXCEPT !.courses = @ \cup {course}], del)

\* variant: the code is looked up among all Courses, the updated one included
update_course_among_all(st, del, course_id, code, name) ==
    LET found == Get(st.courses, course_id)
        course == Course(course_id, Upper(Strip(code)), Strip(name))
    IN  IF found = {} THEN Raises(st, del, CourseNotFound)
        ELSE IF \E c \in st.courses : c.code = course.code
        THEN Raises(st, del, CodeExists)
        ELSE Flushed([st EXCEPT !.courses = (@ \ found) \cup {course}], del)

update_course(st, del, course_id, code, name) ==
    LET found == Get(st.courses, course_id)
        course == Course(course_id, Upper(Strip(code)), Strip(name))
        others == st.courses \ found
    IN  IF found = {} THEN Raises(st, del, CourseNotFound)
        ELSE IF <<"course", course_id>> \in del
        THEN Flushed(st, del)
        ELSE IF \E c \in others : c.code = course.code
        THEN Raises(st, del, CodeExists)
        ELSE Flushed([st EXCEPT !.courses = others \cup {course}], del)

delete_course(st, del, course_id) ==
    IF Get(st.courses, course_id) = {} THEN Raises(st, del, CourseNotFound)
    ELSE Returns(st, del \cup CascadeCourse(st, course_id))

\* variant: no uq_enroll constraint on (student_id, course_id)
enroll_student_unchecked(st, del, student_id, course_id) ==
    IF Get(st.students, student_id) = {} THEN Raises(st, del, StudentNotFound)
    ELSE IF Get(st.courses, course_id) = {} THEN Raises(st, del, CourseNotFound)
    ELSE Flushed([st EXCEPT !.enrollments =
                     @ \cup {Enrollment(NextId(st.enrollments), student_id, course_id)}],
                 del)

\* variant: the Course is looked up before the Student
enroll_student_course_first(st, del, student_id, course_id) ==
    LET enrollment == Enrollment(NextId(st.enrollments), student_id, course_id)
    IN  IF Get(st.courses, course_id) = {} THEN Raises(st, del, CourseNotFound)
        ELSE IF Get(st.students, student_id) = {} THEN Raises(st, del, StudentNotFound)
        ELSE IF \E e \in st.enrollments :
                    e.student_id = student_id /\ e.course_id = course_id
        THEN Raises(st, del, AlreadyEnrolled)
        ELSE Flushed([st EXCEPT !.enrollments = @ \cup {enrollment}], del)

\* variant: the Student and the Course are not looked up
enroll_student_unvalidated(st, del, student_id, course_id) ==
    IF \E e \in st.enrollments :
            e.student_id = student_id /\ e.course_id = course_id
    THEN Raises(st, del, AlreadyEnrolled)
    ELSE Flushed([st EXCEPT !.enrollments =
                     @ \cup {Enrollment(NextId(st.enrollments), student_id, course_id)}],
                 del)

enroll_student(st, del, student_id, course_id) ==
    LET enrollment == Enrollment(NextId(st.enrollments), student_id, course_id)
    IN  IF Get(st.students, student_id) = {} THEN Raises(st, del, StudentNotFound)
        ELSE IF Get(st.courses, course_id) = {} THEN Raises(st, del, CourseNotFound)
        ELSE IF \E e \in st.enrollments :
                    e.student_id = student_id /\ e.course_id = course_id
        THEN Raises(st, del, AlreadyEnrolled)
        ELSE Flushed([st EXCEPT !.enrollments = @ \cup {enrollment}], del)

remove_enrollment(st, del, enrollment_id) ==
    IF Get(st.enrollments, enrollment_id) = {}
    THEN Raises(st, del, EnrollmentNotFound)
    ELSE Returns(st, del \cup CascadeEnrollment(st, enrollment_id))

\* variant: an existing row is replaced by a new one instead of updated
set_attendance_reinsert(st, del, enrollment_id, total_classes, attended_classes) ==
    LET existing == {a \in st.attendance : a.enrollment_id = enrollment_id}
        fresh == Attendance(NextId(st.attendance), enrollment_id,
                            total_classes, attended_classes)
    IN  IF Get(st.enrollments, enrollment_id) = {}
        THEN Raises(st, del, EnrollmentNotFound)
        ELSE IF total_classes < 0 \/ attended_classes < 0
        THEN Raises(st, del, AttendanceNegative)
        ELSE IF attended_classes > total_classes
        THEN Raises(st, del, AttendanceExceeds)
        ELSE Flushed([st EXCEPT !.attendance = (@ \ existing) \cup {fresh}], del)

\* variant: only total_classes is tested for a negative value
set_attendance_sign_of_total(st, del, enrollment_id, total_classes, attended_classes) ==
    LET existing == {a \in st.attendance : a.enrollment_id = enrollment_id}
        \* attendance is None: INSERT with the column defaults, flush
        created == Attendance(NextId(st.attendance), enrollment_id, 0, 0)
        inserted == FlushDeletes([st EXCEPT !.attendance = @ \cup {created}], del)
        attendance == IF existing = {} THEN created ELSE CHOOSE a \in existing : TRUE
        base == IF existing = {} THEN inserted ELSE st
        pending == IF existing = {} THEN NoDeletes ELSE del
        updated == [attendance EXCEPT !.total_classes = total_classes,
                                      !.attended_classes = attended_classes]
    IN  IF Get(st.enrollments, enrollment_id) = {}
        THEN Raises(st, del, EnrollmentNotFound)
        ELSE IF total_classes < 0
        THEN Raises(st, del, AttendanceNegative)
        ELSE IF attended_classes > total_classes
        THEN Raises(st, del, AttendanceExceeds)
        ELSE IF <<"attendance", attendance.id>> \in pending
        THEN Flushed(base, pending)
        ELSE IF attendance \notin base.attendance
        THEN Raises(st, del, StaleData)  \* the row went with its enrollment
        ELSE Flushed([base EXCEPT !.attendance = (@ \ {attendance}) \cup {updated}],
                     pending)

set_attendance(st, del, enrollment_id, total_classes, attended_classes) ==
    LET existing == {a \in st.attendance : a.enrollment_id = enrollment_id}
        \* attendance is None: INSERT with the column defaults, flush
        created == Attendance(NextId(st.attendance), enrollment_id, 0, 0)
        inserted == FlushDeletes([st EXCEPT !.attendance = @ \cup {created}], del)
        attendance == IF existing = {} THEN created ELSE CHOOSE a \in existing : TRUE
        base == IF existing = {} THEN inserted ELSE st
        pending == IF existing = {} THEN NoDeletes ELSE del
        updated == [attendance EXCEPT !.total_classes = total_classes,
                                      !.attended_classes = attended_classes]
    IN  IF Get(st.enrollments, enrollment_id) = {}
        THEN Raises(st, del, EnrollmentNotFound)
        ELSE IF total_classes < 0 \/ attended_classes < 0
        THEN Raises(st, del, AttendanceNegative)
        ELSE IF attended_classes > total_classes
        THEN Raises(st, del, AttendanceExceeds)
        ELSE IF <<"attendance", attendance.id>> \in pending
        THEN Flushed(base, pending)
        ELSE IF attendance \notin base.attendance
        THEN Raises(st, del, StaleData)  \* the row went with its enrollment
        ELSE Flushed([base EXCEPT !.attendance = (@ \ {attendance}) \cup {updated}],
                     pending)

\* variant: the upper bound of marks_obtained is not checked
add_mark_unbounded(st, del, enrollment_id, assessment, marks_obtained, max_marks) ==
    LET label == IF Strip(assessment) = <<>> THEN Exam ELSE Strip(assessment)
        mark == Mark(NextId(st.marks), enrollment_id, label, marks_obtained, max_marks)
    IN  IF Get(st.enrollments, enrollment_id) = {}
        THEN Raises(st, del, EnrollmentNotFound)
        ELSE IF max_marks <= 0 THEN Raises(st, del, MaxMarksPositive)
        ELSE IF marks_obtained < 0 THEN Raises(st, del, MarksRange)
        ELSE Flushed([st EXCEPT !.marks = @ \cup {mark}], del)

\* variant: max_marks is not tested
add_mark_any_maximum(st, del, enrollment_id, assessment, marks_obtained, max_marks) ==
    LET label == IF Strip(assessment) = <<>> THEN Exam ELSE Strip(assessment)
        mark == Mark(NextId(st.marks), enrollment_id, label, marks_obtained, max_marks)
    IN  IF Get(st.enrollments, enrollment_id) = {}
        THEN Raises(st, del, EnrollmentNotFound)
        ELSE IF marks_obtained < 0 \/ marks_obtained > max_marks
        THEN Raises(st, del, MarksRange)
        ELSE Flushed([st EXCEPT !.marks = @ \cup {mark}], del)

\* variant: a Mark of the enrollment with the same label is overwritten
add_mark_upsert(st, del, enrollment_id, assessment, marks_obtained, max_marks) ==
    LET label == IF Strip(assessment) = <<>> THEN Exam ELSE Strip(assessment)
        same == {m \in st.marks : m.enrollment_id = enrollment_id /\ m.assessment = label}
        old == CHOOSE m \in same : TRUE
        mark == Mark(IF same = {} THEN NextId(st.marks) ELSE old.id,
                     enrollment_id, label, marks_obtained, max_marks)
    IN  IF Get(st.enrollments, enrollment_id) = {}
        THEN Raises(st, del, EnrollmentNotFound)
        ELSE IF max_marks <= 0 THEN Raises(st, del, MaxMarksPositive)
        ELSE IF marks_obtained < 0 \/ marks_obtained > max_marks
        THEN Raises(st, del, MarksRange)
        ELSE Flushed([st EXCEPT !.marks = (@ \ same) \cup {mark}], del)

add_mark(st, del, enrollment_id, assessment, marks_obtained, max_marks) ==
    LET label == IF Strip(assessment) = <<>> THEN Exam ELSE Strip(assessment)
        mark == Mark(NextId(st.marks), enrollment_id, label, marks_obtained, max_marks)
    IN  IF Get(st.enrollments, enrollment_id) = {}
        THEN Raises(st, del, EnrollmentNotFound)
        ELSE IF max_marks <= 0 THEN Raises(st, del, MaxMarksPositive)
        ELSE IF marks_obtained < 0 \/ marks_obtained > max_marks
        THEN Raises(st, del, MarksRange)
        ELSE Flushed([st EXCEPT !.marks = @ \cup {mark}], del)

\* variant: no lookup before session.delete
delete_mark_unchecked(st, del, mark_id) ==
    Returns(st, del \cup {<<"mark", mark_id>>})

delete_mark(st, del, mark_id) ==
    IF Get(st.marks, mark_id) = {} THEN Raises(st, del, MarkNotFound)
    ELSE Returns(st, del \cup {<<"mark", mark_id>>})

\* ORDER BY id DESC
RECURSIVE DescById(_)
DescById(rows) ==
    IF rows = {} THEN <<>>
    ELSE LET top == CHOOSE r \in rows : \A o \in rows : o.id <= r.id
         IN  <<top>> \o DescById(rows \ {top})

list_enrollments(st) == DescById(st.enrollments)

list_marks_for_enrollment(st, enrollment_id) ==
    DescById({m \in st.marks : m.enrollment_id = enrollment_id})

\* the code point of a character (the order of SQLite's BINARY collation)
Ord(c) ==
    CASE c = " " -> 32
      [] c = "C" -> 67
      [] c = "D" -> 68
      [] c = "E" -> 69
      [] c = "X" -> 88
      [] c = "a" -> 97
      [] c = "c" -> 99
      [] c = "d" -> 100
      [] c = "m" -> 109
      [] c = "n" -> 110
      [] c = "q" -> 113
      [] c = "x" -> 120
      [] OTHER -> 0

RECURSIVE StrLess(_, _)
StrLess(a, b) ==
    IF b = <<>> THEN FALSE
    ELSE IF a = <<>> THEN TRUE
    ELSE IF Head(a) = Head(b) THEN StrLess(Tail(a), Tail(b))
    ELSE Ord(Head(a)) < Ord(Head(b))

\* variant: no ORDER BY, the rows come in the order of their ids
RECURSIVE InIdOrder(_)
InIdOrder(rows) ==
    IF rows = {} THEN <<>>
    ELSE LET first == CHOOSE r \in rows : \A o \in rows : r.id <= o.id
         IN  <<first>> \o InIdOrder(rows \ {first})

\* ORDER BY roll_no
RECURSIVE AscByRoll(_)
AscByRoll(rows) ==
    IF rows = {} THEN <<>>
    ELSE LET first == CHOOSE r \in rows :
                 \A t \in rows : \/ StrLess(r.roll_no, t.roll_no)
                                 \/ (r.roll_no = t.roll_no /\ r.id <= t.id)
         IN  <<first>> \o AscByRoll(rows \ {first})

list_students(st) == AscByRoll(st.students)

----------------------------------------------------------------------------
(* The transaction boundary (db.py: session_scope) *)

\* session.commit(): flush what is pending, then make the view durable
Committed(committed, view, del) == FlushDeletes(view, del)

\* variant: what was flushed before the failure stays
RolledBackPartial(committed, view, del) == view

\* session.rollback(): the database is what the last commit left
RolledBack(committed, view, del) == committed

NoBoundary == [wrote |-> FALSE, deleted |-> NoDeletes]

\* nothing has been read in the open boundary
NoResult == [op |-> "none"]

\* no other process has a transaction on the database file
NoPeer == [at |-> "idle"]

Ended(committed, view, del) == [wrote |-> view # committed, deleted |-> del]

\* variant: a boundary is entered whether or not init_db has completed
BeginAnytime ==
    /\ session = "closed"
    /\ session' = "active"
    /\ tx' = db
    /\ deleted' = NoDeletes
    /\ ops' = 0
    /\ raised' = NoError
    /\ last' = NoBoundary
    /\ result' = NoResult
    /\ UNCHANGED <<db, pc, run, legacy, dialect, peer>>

\* `with session_scope() as session:` is entered
Begin ==
    /\ pc = "ready"
    /\ session = "closed"
    /\ session' = "active"
    /\ tx' = db
    /\ deleted' = NoDeletes
    /\ ops' = 0
    /\ raised' = NoError
    /\ last' = NoBoundary
    /\ result' = NoResult
    /\ UNCHANGED <<db, pc, run, legacy, dialect, peer>>

\* variant: the failure path rolls back and leaves the session open
RollbackNoClose(err) ==
    /\ db' = db
    /\ tx' = db'
    /\ deleted' = NoDeletes
    /\ session' = session
    /\ ops' = 0
    /\ raised' = err
    /\ last' = [wrote |-> tx # db, deleted |-> deleted]

\* except Exception: session.rollback(); raise -- finally: session.close()
Rollback(err) ==
    /\ db' = RolledBack(db, tx, deleted)
    /\ tx' = db'
    /\ deleted' = NoDeletes
    /\ session' = "closed"
    /\ ops' = 0
    /\ raised' = err
    /\ last' = Ended(db, tx, deleted)

\* the body returned normally: session.commit() -- finally: session.close()
Commit ==
    /\ pc = "ready"
    /\ session = "active"
    /\ db' = Committed(db, tx, deleted)
    /\ tx' = db'
    /\ deleted' = NoDeletes
    /\ session' = "closed"
    /\ ops' = 0
    /\ last' = Ended(db, tx, deleted)
    /\ UNCHANGED <<raised, pc, run, legacy, dialect, result, peer>>

\* An unexpected store failure, in the body or in session.commit() itself
StoreFails ==
    /\ pc = "ready"
    /\ session = "active"
    /\ Rollback(StoreFailure)
    /\ UNCHANGED <<pc, run, legacy, dialect, result, peer>>

\* The model follows the store while its primary keys stay within the bounds
WithinBounds(st) ==
    /\ Ids(st.students) \subseteq 1..MaxStudentId
    /\ Ids(st.courses) \subseteq 1..MaxCourseId
    /\ Ids(st.enrollments) \subseteq 1..MaxEnrollId
    /\ Ids(st.attendance) \subseteq 1..MaxAttId
    /\ Ids(st.marks) \subseteq 1..MaxMarkId

\* One service call in the body of the open boundary: its result stays in the
\* transaction, or its exception leaves the boundary
CallWithin(r, bounded) ==
    /\ pc = "ready"
    /\ session = "active"
    /\ ops < MaxOps
    /\ IF r.err = NoError
       THEN /\ bounded
            /\ tx' = r.st
            /\ deleted' = r.del
            /\ ops' = ops + 1
            /\ UNCHANGED <<db, session, raised, last>>
       ELSE Rollback(r.err)
    /\ UNCHANGED <<pc, run, legacy, dialect, result, peer>>

Call(r) == CallWithin(r, WithinBounds(r.st))

StudentIds == 1..MaxStudentId
CourseIds == 1..MaxCourseId
EnrollIds == 1..MaxEnrollId
MarkIds == 1..MaxMarkId
ClassCounts == (0 - 1)..MaxClasses
MarkValues == (0 - 1)..(MaxMarkVal + 1)
MaxMarkValues == 0..MaxMarkVal

CreateStudent ==
    \E roll_no \in RollInputs, name \in NameInputs :
        Call(create_student(tx, deleted, roll_no, name))

UpdateStudent ==
    \E student_id \in StudentIds, roll_no \in RollInputs, name \in NameInputs :
        Call(update_student(tx, deleted, student_id, roll_no, name))

DeleteStudent ==
    \E student_id \in StudentIds : Call(delete_student(tx, deleted, student_id))

CreateCourse ==
    \E code \in CodeInputs, name \in NameInputs :
        Call(create_course(tx, deleted, code, name))

UpdateCourse ==
    \E course_id \in CourseIds, code \in CodeInputs, name \in NameInputs :
        Call(update_course(tx, deleted, course_id, code, name))

DeleteCourse ==
    \E course_id \in CourseIds : Call(delete_course(tx, deleted, course_id))

EnrollStudent ==
    \E student_id \in StudentIds, course_id \in CourseIds :
        Call(enroll_student(tx, deleted, student_id, course_id))

RemoveEnrollment ==
    \E enrollment_id \in EnrollIds :
        Call(remove_enrollment(tx, deleted, enrollment_id))

SetAttendance ==
    \E enrollment_id \in EnrollIds, total \in ClassCounts, attended \in ClassCounts :
        Call(set_attendance(tx, deleted, enrollment_id, total, attended))

AddMark ==
    \E enrollment_id \in EnrollIds, assessment \in AssessInputs,
       obtained \in MarkValues, maximum \in MaxMarkValues :
        Call(add_mark(tx, deleted, enrollment_id, assessment, obtained, maximum))

DeleteMark ==
    \E mark_id \in MarkIds : Call(delete_mark(tx, deleted, mark_id))

\* The store that init_db leaves on first start: the schema, no rows
Init ==
    /\ db = EmptyStore
    /\ tx = EmptyStore
    /\ deleted = NoDeletes
    /\ session = "closed"
    /\ ops = 0
    /\ raised = NoError
    /\ last = NoBoundary
    /\ pc = "ready"
    /\ run = 1
    /\ legacy = EmptyStore
    /\ dialect = "sqlite"
    /\ result = NoResult
    /\ peer = NoPeer

Next ==
    \/ Begin
    \/ Commit
    \/ StoreFails
    \/ CreateStudent
    \/ UpdateStudent
    \/ DeleteStudent
    \/ CreateCourse
    \/ UpdateCourse
    \/ DeleteCourse
    \/ EnrollStudent
    \/ RemoveEnrollment
    \/ SetAttendance
    \/ AddMark
    \/ DeleteMark

Spec == Init /\ [][Next]_vars

\* A caller of the service layer other than the front end (seed.py is one):
\* nothing has tested the text it passes
CreateStudentDirect ==
    \E roll_no \in BlankInputs, name \in NameInputs :
        Call(create_student(tx, deleted, roll_no, name))

NextService ==
    \/ Next
    \/ CreateStudentDirect

SpecService == Init /\ [][NextService]_vars

\* The marks of a small register: one Student enrolled in two Courses, and as
\* many Marks as MaxMarks allows
MaxMarks == 3

WithinMarkBounds(st) == Ids(st.marks) \subseteq 1..MaxMarks

Register ==
    [EmptyStore EXCEPT
        !.students = {Student(1, <<"x">>, <<"n">>)},
        !.courses = {Course(1, <<"C">>, <<"n">>), Course(2, <<"D">>, <<"n">>)},
        !.enrollments = {Enrollment(1, 1, 1), Enrollment(2, 1, 2)}]

InitMarks ==
    /\ db = Register
    /\ tx = Register
    /\ deleted = NoDeletes
    /\ session = "closed"
    /\ ops = 0
    /\ raised = NoError
    /\ last = NoBoundary
    /\ pc = "ready"
    /\ run = 1
    /\ legacy = EmptyStore
    /\ dialect = "sqlite"
    /\ result = NoResult
    /\ peer = NoPeer

AddMarkMore ==
    \E enrollment_id \in EnrollIds, assessment \in AssessInputs,
       obtained \in MarkValues, maximum \in MaxMarkValues :
        LET r == add_mark(tx, deleted, enrollment_id, assessment, obtained, maximum)
        IN  CallWithin(r, WithinMarkBounds(r.st))

DeleteMarkMore ==
    \E mark_id \in 1..MaxMarks :
        LET r == delete_mark(tx, deleted, mark_id)
        IN  CallWithin(r, WithinMarkBounds(r.st))

NextMarks ==
    \/ Begin
    \/ Commit
    \/ StoreFails
    \/ AddMarkMore
    \/ DeleteMarkMore

SpecMarks == InitMarks /\ [][NextMarks]_vars

----------------------------------------------------------------------------
(* Reconciliation (maintenance.py: cleanup_duplicates).  A pass works on the
   transaction's view `st` (Core UPDATEs reach it at once) and on the
   session's pending deletes `del`, which the next session.flush() writes. *)

\* variant: ORDER BY id DESC
RECURSIVE DescIds(_)
DescIds(ids) ==
    IF ids = {} THEN <<>>
    ELSE <<MaxOf(ids)>> \o DescIds(ids \ {MaxOf(ids)})

\* ORDER BY id
RECURSIVE AscIds(_)
AscIds(ids) ==
    IF ids = {} THEN <<>>
    ELSE <<MinOf(ids)>> \o AscIds(ids \ {MinOf(ids)})

Work(st, del) == [st |-> st, del |-> del]

\* GROUP BY roll_no HAVING count(id) > 1
DupRolls(st) ==
    {r \in {s.roll_no : s \in st.students} :
        Cardinality({s \in st.students : s.roll_no = r}) > 1}

\* variant: the duplicates are deleted without the UPDATE of their enrollments
RECURSIVE DeleteStudents(_, _, _, _)
DeleteStudents(st, del, keep, dups) ==
    IF dups = <<>> THEN [st |-> st, del |-> del]
    ELSE DeleteStudents(st, del \cup CascadeStudent(st, Head(dups)), keep, Tail(dups))

\* for dup in students[1:]: UPDATE enrollments SET student_id = keep.id
\*                          WHERE student_id = dup.id; session.delete(dup)
RECURSIVE RepointStudents(_, _, _, _)
RepointStudents(st, del, keep, dups) ==
    IF dups = <<>> THEN Work(st, del)
    ELSE LET dup == Head(dups)
             moved == [st EXCEPT !.enrollments =
                          {IF e.student_id = dup
                           THEN [e EXCEPT !.student_id = keep] ELSE e : e \in @}]
         IN  RepointStudents(moved, del \cup CascadeStudent(moved, dup),
                             keep, Tail(dups))

RECURSIVE MergeStudents(_, _, _)
MergeStudents(st, del, rolls) ==
    IF rolls = {} THEN Work(st, del)
    ELSE LET roll_no == CHOOSE r \in rolls : TRUE
             students == AscIds(Ids({s \in st.students : s.roll_no = roll_no}))
             w == IF Len(students) < 2 THEN Work(st, del)
                  ELSE RepointStudents(st, del, Head(students), Tail(students))
         IN  MergeStudents(w.st, w.del, rolls \ {roll_no})

StudentPass(st, del) == MergeStudents(st, del, DupRolls(st))

\* GROUP BY code HAVING count(id) > 1
DupCodes(st) ==
    {c \in {x.code : x \in st.courses} :
        Cardinality({x \in st.courses : x.code = c}) > 1}

RECURSIVE RepointCourses(_, _, _, _)
RepointCourses(st, del, keep, dups) ==
    IF dups = <<>> THEN Work(st, del)
    ELSE LET dup == Head(dups)
             moved == [st EXCEPT !.enrollments =
                          {IF e.course_id = dup
                           THEN [e EXCEPT !.course_id = keep] ELSE e : e \in @}]
         IN  RepointCourses(moved, del \cup CascadeCourse(moved, dup),
                            keep, Tail(dups))

RECURSIVE MergeCourses(_, _, _)
MergeCourses(st, del, codes) ==
    IF codes = {} THEN Work(st, del)
    ELSE LET code == CHOOSE c \in codes : TRUE
             courses == AscIds(Ids({c \in st.courses : c.code = code}))
             w == IF Len(courses) < 2 THEN Work(st, del)
                  ELSE RepointCourses(st, del, Head(courses), Tail(courses))
         IN  MergeCourses(w.st, w.del, codes \ {code})

\* the course loop, then session.flush() (line 82)
CoursePass(st, del) ==
    LET w == MergeCourses(st, del, DupCodes(st))
    IN  Work(FlushDeletes(w.st, w.del), NoDeletes)

Max2(a, b) == IF a >= b THEN a ELSE b

\* keep.total = max(...); keep.attended = max(...); clamp attended to total
MergeAttendance(keep, dup) ==
    LET total == Max2(keep.total_classes, dup.total_classes)
        attended == Max2(keep.attended_classes, dup.attended_classes)
    IN  [keep EXCEPT !.total_classes = total,
                     !.attended_classes = IF attended > total THEN total ELSE attended]

\* GROUP BY enrollment_id HAVING count(id) > 1
DupAttEnrollments(st) ==
    {e \in {a.enrollment_id : a \in st.attendance} :
        Cardinality({a \in st.attendance : a.enrollment_id = e}) > 1}

RowById(rows, id) == CHOOSE r \in rows : r.id = id

\* variant: the values are merged into keep, the duplicates are not deleted
RECURSIVE FoldAttendanceKeepDups(_, _, _, _)
FoldAttendanceKeepDups(st, del, keep, dups) ==
    IF dups = <<>> THEN Work(st, del)
    ELSE LET k == RowById(st.attendance, keep)
             dup == RowById(st.attendance, Head(dups))
             merged == [st EXCEPT !.attendance =
                           (@ \ {k}) \cup {MergeAttendance(k, dup)}]
         IN  FoldAttendanceKeepDups(merged, del, keep, Tail(dups))

\* for dup in rows[1:]: merge into keep; session.delete(dup)
RECURSIVE FoldAttendance(_, _, _, _)
FoldAttendance(st, del, keep, dups) ==
    IF dups = <<>> THEN Work(st, del)
    ELSE LET k == RowById(st.attendance, keep)
             dup == RowById(st.attendance, Head(dups))
             merged == [st EXCEPT !.attendance =
                           (@ \ {k}) \cup {MergeAttendance(k, dup)}]
         IN  FoldAttendance(merged, del \cup {<<"attendance", dup.id>>},
                            keep, Tail(dups))

RECURSIVE MergeAttendanceGroups(_, _, _)
MergeAttendanceGroups(st, del, groups) ==
    IF groups = {} THEN Work(st, del)
    ELSE LET enrollment_id == CHOOSE e \in groups : TRUE
             rows == AscIds(Ids({a \in st.attendance :
                                    a.enrollment_id = enrollment_id}))
             w == IF Len(rows) < 2 THEN Work(st, del)
                  ELSE FoldAttendance(st, del, Head(rows), Tail(rows))
         IN  MergeAttendanceGroups(w.st, w.del, groups \ {enrollment_id})

\* variant: every Attendance row is clamped, not only the keeper of a group
AttendancePassClampAll(st, del) ==
    LET w == MergeAttendanceGroups(st, del, DupAttEnrollments(st))
        clamped == [w.st EXCEPT !.attendance =
                       {[a EXCEPT !.attended_classes =
                            IF @ > a.total_classes THEN a.total_classes ELSE @] :
                        a \in @}]
    IN  Work(FlushDeletes(clamped, w.del), NoDeletes)

\* the attendance loop, then session.flush() (line 115)
AttendancePass(st, del) ==
    LET w == MergeAttendanceGroups(st, del, DupAttEnrollments(st))
    IN  Work(FlushDeletes(w.st, w.del), NoDeletes)

\* variant: the pairs are grouped as they stood before the student and course
\* passes (the enrollment pass first)
DupPairsBefore(st) ==
    {p \in {<<e.student_id, e.course_id>> : e \in legacy.enrollments} :
        Cardinality({e \in legacy.enrollments :
                        e.student_id = p[1] /\ e.course_id = p[2]}) > 1}

\* GROUP BY student_id, course_id HAVING count(id) > 1
DupPairs(st) ==
    {p \in {<<e.student_id, e.course_id>> : e \in st.enrollments} :
        Cardinality({e \in st.enrollments :
                        e.student_id = p[1] /\ e.course_id = p[2]}) > 1}

\* select(Attendance).where(Attendance.enrollment_id == id).scalar_one_or_none():
\* the WHERE runs on the database rows (autoflush=False); the object returned is
\* the session's own, with the attribute values it has in memory
AttendanceOf(st, mem, enrollment_id) ==
    {RowById(mem, a.id) : a \in {x \in st.attendance : x.enrollment_id = enrollment_id}}

\* variant: the cascade sees the objects as changed in memory (autoflush)
DeleteEnrollmentFlushed(st, mem, dup) ==
    CascadeEnrollment([st EXCEPT !.attendance = mem], dup)

\* session.delete(dup) of an Enrollment: the delete cascade loads dup.attendance
\* and dup.marks from the database rows and marks them deleted with it
DeleteEnrollment(st, mem, dup) == CascadeEnrollment(st, dup)

EWork(st, mem, del) == [st |-> st, mem |-> mem, del |-> del]

\* variant: the Marks of the duplicate are left where they are
MoveMarksNone(st, dup, keep) == st

\* UPDATE marks SET enrollment_id = keep.id WHERE enrollment_id = dup.id
MoveMarks(st, dup, keep) ==
    [st EXCEPT !.marks =
        {IF m.enrollment_id = dup
         THEN [m EXCEPT !.enrollment_id = keep] ELSE m : m \in @}]

\* for dup in enrollments[1:]: move marks, merge attendance, session.delete(dup)
RECURSIVE FoldEnrollments(_, _, _)
FoldEnrollments(w, keep, dups) ==
    IF dups = <<>> THEN w
    ELSE LET dup == Head(dups)
             moved == MoveMarks(w.st, dup, keep)
             keep_att == AttendanceOf(moved, w.mem, keep)
             dup_att == AttendanceOf(moved, w.mem, dup)
             k == CHOOSE a \in keep_att : TRUE
             d == CHOOSE a \in dup_att : TRUE
             mem == IF dup_att = {} THEN w.mem
                    ELSE IF keep_att = {}
                    THEN (w.mem \ {d}) \cup {[d EXCEPT !.enrollment_id = keep]}
                    ELSE (w.mem \ {k}) \cup {MergeAttendance(k, d)}
             del == IF dup_att # {} /\ keep_att # {}
                    THEN w.del \cup {<<"attendance", d.id>>}
                    ELSE w.del
         IN  FoldEnrollments(
                 EWork(moved, mem, del \cup DeleteEnrollment(moved, mem, dup)),
                 keep, Tail(dups))

RECURSIVE MergeEnrollments(_, _)
MergeEnrollments(w, pairs) ==
    IF pairs = {} THEN w
    ELSE LET p == CHOOSE x \in pairs : TRUE
             enrollments == AscIds(Ids({e \in w.st.enrollments :
                                e.student_id = p[1] /\ e.course_id = p[2]}))
             n == IF Len(enrollments) < 2 THEN w
                  ELSE FoldEnrollments(w, Head(enrollments), Tail(enrollments))
         IN  MergeEnrollments(n, pairs \ {p})

\* the enrollment loop, then session.flush() (line 170): the UPDATEs of the
\* attendance objects changed in memory, then the DELETEs
EnrollmentPass(st, del) ==
    LET w == MergeEnrollments(EWork(st, st.attendance, del), DupPairs(st))
    IN  Work(FlushDeletes([w.st EXCEPT !.attendance = w.mem], w.del), NoDeletes)

cleanup_duplicates(st) ==
    LET s == StudentPass(st, NoDeletes)
        c == CoursePass(s.st, s.del)
        a == AttendancePass(c.st, c.del)
        e == EnrollmentPass(a.st, a.del)
    IN  e.st

----------------------------------------------------------------------------
(* Process start (db.py: init_db), one step per pass of cleanup_duplicates *)

MaxRuns == 2

\* Base.metadata.create_all(engine); with session_scope() as session:
InitDb ==
    /\ pc = "boot"
    /\ session = "closed"
    /\ session' = "active"
    /\ tx' = db
    /\ deleted' = NoDeletes
    /\ raised' = NoError
    /\ last' = NoBoundary
    /\ pc' = "students"
    /\ UNCHANGED <<db, ops, run, legacy, dialect, result, peer>>

Pass(at, w, to) ==
    /\ pc = at
    /\ session = "active"
    /\ tx' = w.st
    /\ deleted' = w.del
    /\ pc' = to
    /\ UNCHANGED <<db, session, ops, raised, last, run, legacy, dialect, result, peer>>

ReconcileStudents == Pass("students", StudentPass(tx, deleted), "courses")

ReconcileCourses == Pass("courses", CoursePass(tx, deleted), "attendance")

ReconcileAttendance == Pass("attendance", AttendancePass(tx, deleted), "enrollments")

ReconcileEnrollments == Pass("enrollments", EnrollmentPass(tx, deleted), "indexes")

\* CREATE UNIQUE INDEX IF NOT EXISTS ... : SQLite refuses while duplicates exist
IndexesInstall(st) == UniqueOk(st)

\* ensure_sqlite_unique_indexes(session), then the boundary of init_db ends:
\* commit, or the IntegrityError rolls back and leaves init_db
EnsureIndexes ==
    /\ pc = "indexes"
    /\ session = "active"
    /\ IF dialect = "sqlite" /\ ~IndexesInstall(tx)
       THEN /\ Rollback(IntegrityFailure)
            /\ pc' = "failed"
       ELSE /\ db' = Committed(db, tx, deleted)
            /\ tx' = db'
            /\ deleted' = NoDeletes
            /\ session' = "closed"
            /\ ops' = 0
            /\ raised' = NoError
            /\ last' = Ended(db, tx, deleted)
            /\ pc' = "ready"
    /\ UNCHANGED <<run, legacy, dialect, result, peer>>

\* the program is started again on the same database file
Restart ==
    /\ pc = "ready"
    /\ session = "closed"
    /\ run < MaxRuns
    /\ run' = run + 1
    /\ pc' = "boot"
    /\ UNCHANGED <<db, tx, deleted, session, ops, raised, last, legacy, dialect, result, peer>>

----------------------------------------------------------------------------
(* A database file written before the unique constraints existed *)

MaxLegacyStudents == 2
MaxLegacyCourses == 2
MaxLegacyEnroll == 3
MaxLegacyAtt == 3
MaxLegacyMarks == 2
MaxLegacyRows == 7
MaxDanglingRows == 4
MaxLegacyClasses == 1

LegacyRolls == {<<"x">>, <<"X">>}
LegacyCodes == {<<"C">>, <<"D">>}

LegacyMarkValues == {0, 1}

LegacyStore(rolls, codes, enr, att, mk) ==
    [students |-> {Student(i, rolls[i], <<"n">>) : i \in DOMAIN rolls},
     courses |-> {Course(i, codes[i], <<"n">>) : i \in DOMAIN codes},
     enrollments |-> {Enrollment(i, enr[i][1], enr[i][2]) : i \in DOMAIN enr},
     attendance |-> {Attendance(i, att[i][1], att[i][2], att[i][3]) : i \in DOMAIN att},
     marks |-> {Mark(i, mk[i][1], Exam, mk[i][2], 1) : i \in DOMAIN mk}]

LegacyInit(rows, dangling) ==
    \E nS \in 0..MaxLegacyStudents, nC \in 0..MaxLegacyCourses,
       nE \in 0..MaxLegacyEnroll, nA \in 0..MaxLegacyAtt, nM \in 0..MaxLegacyMarks :
      /\ nS + nC + nE + nA + nM <= rows
      \* g = 1: a foreign key may name a row that does not exist (id n + 1)
      /\ \E g \in {0, 1} :
         /\ g = 1 => nS + nC + nE + nA + nM <= dangling
         /\ \E rolls \in [1..nS -> LegacyRolls], codes \in [1..nC -> LegacyCodes],
            enr \in [1..nE -> (1..(nS + g)) \X (1..(nC + g))],
            att \in [1..nA -> (1..(nE + g)) \X (0..MaxLegacyClasses)
                                             \X (0..MaxLegacyClasses)],
            mk \in [1..nM -> (1..(nE + g)) \X LegacyMarkValues] :
           /\ nS > 0 => rolls[1] = <<"x">>
           /\ nC > 0 => codes[1] = <<"C">>
           /\ legacy = LegacyStore(rolls, codes, enr, att, mk)
      /\ db = legacy
      /\ tx = legacy
      /\ deleted = NoDeletes
      /\ session = "closed"
      /\ ops = 0
      /\ raised = NoError
      /\ last = NoBoundary
      /\ pc = "boot"
      /\ run = 1
      /\ dialect \in {"sqlite", "other"}
      /\ result = NoResult
      /\ peer = NoPeer

InitRecon == LegacyInit(MaxLegacyRows, MaxDanglingRows)

NextRecon ==
    \/ InitDb
    \/ ReconcileStudents
    \/ ReconcileCourses
    \/ ReconcileAttendance
    \/ ReconcileEnrollments
    \/ EnsureIndexes
    \/ Restart

SpecRecon == InitRecon /\ [][NextRecon]_vars

----------------------------------------------------------------------------
(* Properties of the service layer, under Spec *)

\* a step in which the open boundary ends with a commit
CommitStep == session = "active" /\ session' = "closed" /\ raised' = NoError

\* a step in which the open boundary ends with an error
RaiseStep == session = "active" /\ session' = "closed" /\ raised' # NoError

\* C1: in the committed store no two Students share a roll number and no two
\* Courses share a code, whatever service operations were committed.
C1_UniqueRollAndCode == UniqueRoll(db) /\ UniqueCode(db)

C1_Witness ==
    /\ Cardinality(db.students) = 2
    /\ Cardinality(db.courses) = 2
    /\ raised \in {RollExists, CodeExists}

\* C2: the committed store holds at most one Enrollment per (student, course)
\* pair; enroll_student on a pair that is already enrolled raises the
\* already-enrolled error, and the step that raises it leaves the store as it was.
C2_OneEnrollmentPerPair ==
    /\ [](/\ UniquePair(db)
          /\ session = "active" =>
                \A e \in tx.enrollments :
                    enroll_student(tx, deleted, e.student_id, e.course_id).err
                        = AlreadyEnrolled)
    /\ [][(session = "active" /\ raised' = AlreadyEnrolled) => db' = db]_vars

C2_Witness ==
    /\ raised = AlreadyEnrolled
    /\ session = "closed"
    /\ db.enrollments # {}

AttendanceRows(st, enrollment_id) ==
    {a \in st.attendance : a.enrollment_id = enrollment_id}

\* C3: an enrollment never has two Attendance rows; a successful set_attendance
\* leaves it exactly one row with the values of the call, the row it already
\* had (same id) when it had one, and adds no row otherwise.
C3_SingleAttendanceRow ==
    /\ UniqueAttendance(db)
    /\ UniqueAttendance(tx)
    /\ (pc = "ready" /\ session = "active" /\ ops < MaxOps) =>
          \A e \in EnrollIds, total \in ClassCounts, attended \in ClassCounts :
              LET r == set_attendance(tx, deleted, e, total, attended)
                  before == AttendanceRows(tx, e)
                  after == AttendanceRows(r.st, e)
              IN  (r.err = NoError /\ Get(r.st.enrollments, e) # {}) =>
                      /\ Cardinality(after) = 1
                      /\ \A a \in after : /\ a.total_classes = total
                                          /\ a.attended_classes = attended
                      /\ before # {} => Ids(after) = Ids(before)
                      /\ Cardinality(r.st.attendance) <=
                            Cardinality(tx.attendance)
                                + (IF before = {} THEN 1 ELSE 0)

\* a second call has overwritten the row the first call had committed
C3_Witness ==
    /\ session = "active"
    /\ ops = 1
    /\ Cardinality(tx.attendance) = 1
    /\ \E a \in db.attendance, b \in tx.attendance :
          /\ a.id = b.id
          /\ a.enrollment_id = b.enrollment_id
          /\ a.total_classes # b.total_classes

ValuesInRange(st) ==
    /\ \A a \in st.attendance :
          0 <= a.attended_classes /\ a.attended_classes <= a.total_classes
    /\ \A m \in st.marks :
          m.max_marks > 0 /\ 0 <= m.marks_obtained /\ m.marks_obtained <= m.max_marks

\* C4: every Attendance row has 0 <= attended <= total and every Mark has
\* max_marks > 0 and 0 <= marks_obtained <= max_marks, in the committed store
\* and in what a transaction has flushed.
C4_ValuesInRange == ValuesInRange(db) /\ ValuesInRange(tx)

C4_Witness ==
    /\ db.attendance # {}
    /\ db.marks # {}
    /\ raised \in {AttendanceNegative, AttendanceExceeds, MaxMarksPositive, MarksRange}

\* C5: a boundary that ends with an error leaves the committed store exactly as
\* it was when the boundary was entered, also when the body had flushed changes
\* (the error that ended it is what the caller sees in `raised`).
C5_RollbackRestores == [][RaiseStep => db' = db]_vars

\* a boundary ended with an error after its body had flushed changes
C5_Witness ==
    /\ session = "closed"
    /\ raised = StoreFailure
    /\ last.wrote
    /\ db # EmptyStore

\* the Enrollments of the open transaction that a delete call has reached:
\* those of a deleted Student or Course, and the removed Enrollments
EnrollmentsDeleted ==
    {e \in tx.enrollments :
        \/ <<"student", e.student_id>> \in deleted
        \/ <<"course", e.course_id>> \in deleted
        \/ <<"enrollment", e.id>> \in deleted}

\* C6: when a boundary with delete_student, delete_course or remove_enrollment
\* commits, the deleted Student or Course is gone, none of the Enrollments it
\* reached remains, no Attendance row and no Mark of them remains, and
\* list_enrollments returns none of them.
C6_DeleteCascades ==
    [][CommitStep =>
        LET gone == EnrollmentsDeleted
            listed == list_enrollments(db')
        IN  /\ \A d \in deleted :
                  /\ d[1] = "student" => d[2] \notin Ids(db'.students)
                  /\ d[1] = "course" => d[2] \notin Ids(db'.courses)
            /\ \A e \in gone :
                  /\ e.id \notin Ids(db'.enrollments)
                  /\ \A a \in db'.attendance : a.enrollment_id # e.id
                  /\ \A m \in db'.marks : m.enrollment_id # e.id
                  /\ \A i \in DOMAIN listed : listed[i].id # e.id]_vars

\* a committed delete_student took two Enrollments, an Attendance row and a Mark
C6_Witness ==
    /\ pc = "ready"
    /\ session = "closed"
    /\ raised = NoError
    /\ \E d \in last.deleted : d[1] = "student"
    /\ Cardinality(DeletedIds(last.deleted, "enrollment")) = 2
    /\ DeletedIds(last.deleted, "attendance") # {}
    /\ DeletedIds(last.deleted, "mark") # {}
    /\ db.enrollments = {}

----------------------------------------------------------------------------
(* Properties of the reconciliation, under SpecRecon *)

Duplicated(st) ==
    ~UniqueRoll(st) /\ ~UniquePair(st) /\ ~UniqueAttendance(st)

\* C7: a second run of cleanup_duplicates, on the store the first run
\* committed, changes no row of any table: after every pass of the second run
\* the transaction's view is the committed store and nothing is marked deleted.
C7_SecondRunChangesNothing ==
    (run > 1 /\ session = "active") => (tx = db /\ deleted = NoDeletes)

\* the second run has finished on a store that the first run had to repair
C7_Witness ==
    /\ run = 2
    /\ pc = "indexes"
    /\ Duplicated(legacy)
    /\ db # legacy

\* C8: when every foreign key of the pre-existing store names an existing row,
\* one run of cleanup_duplicates leaves no duplicate roll number, course code,
\* Attendance enrollment id or Enrollment (student, course) pair, and the
\* installation of the unique indexes does not fail.
C8_CleanAfterOneRun ==
    ForeignKeysOk(legacy) =>
        /\ (run = 1 /\ pc = "indexes") => UniqueOk(tx)
        /\ pc # "failed"
        /\ pc = "ready" => UniqueOk(db)

C8_Witness ==
    /\ pc = "ready"
    /\ run = 1
    /\ dialect = "sqlite"
    /\ raised = NoError
    /\ ForeignKeysOk(legacy)
    /\ Duplicated(legacy)

\* the course c (an id of the store `old`) is the course k of the store `new`,
\* as itself or as the keeper of its code
CourseBecame(old, new, c, k) ==
    IF Get(old.courses, c) = {} THEN k = c
    ELSE \E x \in old.courses, y \in new.courses :
            x.id = c /\ y.id = k /\ x.code = y.code

StudentBecame(old, new, s, k) ==
    IF Get(old.students, s) = {} THEN k = s
    ELSE \E x \in old.students, y \in new.students :
            x.id = s /\ y.id = k /\ x.roll_no = y.roll_no

\* C9: after reconciliation each roll number that several Students shared
\* belongs to exactly one Student, a member of the group; every Enrollment of a
\* member that remains belongs to that Student, and that Student is enrolled in
\* every course a member was enrolled in.  Likewise for Courses sharing a code.
C9_MergeKeepsEnrollments ==
    (run = 1 /\ pc = "indexes") =>
        /\ \A s \in db.students :
              LET group == {x \in db.students : x.roll_no = s.roll_no}
                  kept == {x \in tx.students : x.roll_no = s.roll_no}
              IN  /\ Cardinality(kept) = 1
                  /\ kept \subseteq group
                  /\ \A e \in db.enrollments :
                        e.student_id \in Ids(group) =>
                          /\ \A n \in tx.enrollments :
                                n.id = e.id => n.student_id \in Ids(kept)
                          /\ \E n \in tx.enrollments :
                                /\ n.student_id \in Ids(kept)
                                /\ CourseBecame(db, tx, e.course_id, n.course_id)
        /\ \A c \in db.courses :
              LET group == {x \in db.courses : x.code = c.code}
                  kept == {x \in tx.courses : x.code = c.code}
              IN  /\ Cardinality(kept) = 1
                  /\ kept \subseteq group
                  /\ \A e \in db.enrollments :
                        e.course_id \in Ids(group) =>
                          /\ \A n \in tx.enrollments :
                                n.id = e.id => n.course_id \in Ids(kept)
                          /\ \E n \in tx.enrollments :
                                /\ n.course_id \in Ids(kept)
                                /\ StudentBecame(db, tx, e.student_id, n.student_id)

\* two Students "x", one enrolled in course C and one in course D, have become
\* one Student "x" with two Enrollments, C and D
C9_Witness ==
    /\ run = 1
    /\ pc = "indexes"
    /\ legacy.students = {Student(1, <<"x">>, <<"n">>), Student(2, <<"x">>, <<"n">>)}
    /\ legacy.courses = {Course(1, <<"C">>, <<"n">>), Course(2, <<"D">>, <<"n">>)}
    /\ legacy.enrollments = {Enrollment(1, 1, 1), Enrollment(2, 2, 2)}
    /\ Cardinality(tx.students) = 1
    /\ tx.enrollments = {Enrollment(1, 1, 1), Enrollment(2, 1, 2)}

Lowest(row, group) == \A x \in group : row.id <= x.id

\* C10: in every duplicate group the row that survives is the one with the
\* lowest id, under the id it had: Students by roll number and Courses by code
\* (at the flush that follows the course pass), Attendance rows by enrollment,
\* and Enrollments by (student, course) pair as the pairs stand when the
\* enrollment pass starts.
C10_LowestIdSurvives ==
    [][/\ (pc = "courses" /\ pc' = "attendance") =>
            /\ \A s \in tx.students :
                  LET group == {x \in tx.students : x.roll_no = s.roll_no}
                  IN  /\ Cardinality(group) > 1 =>
                            (s \in tx'.students <=> Lowest(s, group))
                      /\ {x \in tx'.students : x.roll_no = s.roll_no} \subseteq group
            /\ \A c \in tx.courses :
                  LET group == {x \in tx.courses : x.code = c.code}
                  IN  /\ Cardinality(group) > 1 =>
                            (c \in tx'.courses <=> Lowest(c, group))
                      /\ {x \in tx'.courses : x.code = c.code} \subseteq group
       /\ (pc = "attendance" /\ pc' = "enrollments") =>
            \A a \in tx.attendance :
                LET group == {x \in tx.attendance : x.enrollment_id = a.enrollment_id}
                IN  Cardinality(group) > 1 =>
                        /\ a.id \in Ids(tx'.attendance) <=> Lowest(a, group)
                        /\ Ids({x \in tx'.attendance :
                                  x.enrollment_id = a.enrollment_id}) \subseteq Ids(group)
       /\ (pc = "enrollments" /\ pc' = "indexes") =>
            \A e \in tx.enrollments :
                LET group == {x \in tx.enrollments :
                                /\ x.student_id = e.student_id
                                /\ x.course_id = e.course_id}
                IN  Cardinality(group) > 1 =>
                        /\ e \in tx'.enrollments <=> Lowest(e, group)
                        /\ {x \in tx'.enrollments :
                              /\ x.student_id = e.student_id
                              /\ x.course_id = e.course_id} \subseteq group
      ]_vars

\* a run has merged Students, the Enrollment pair their merge produced, and
\* Attendance rows of one enrollment
C10_Witness ==
    /\ run = 1
    /\ pc = "indexes"
    /\ ~UniqueRoll(legacy)
    /\ ~UniqueAttendance(legacy)
    /\ UniquePair(legacy)
    /\ Cardinality(tx.enrollments) < Cardinality(legacy.enrollments)
    /\ Cardinality(tx.attendance) < Cardinality(legacy.attendance)
    /\ Cardinality(tx.students) < Cardinality(legacy.students)

Min2(a, b) == IF a <= b THEN a ELSE b

\* C11: the attendance pass leaves, for every group of Attendance rows on one
\* enrollment, exactly the keeper, with total_classes the maximum of the group's
\* totals and attended_classes the maximum of the group's attended values
\* clamped to that total.
C11_GroupMaximum ==
    [][(pc = "attendance" /\ pc' = "enrollments") =>
        \A a \in tx.attendance :
            LET group == {x \in tx.attendance : x.enrollment_id = a.enrollment_id}
                total == MaxOf({x.total_classes : x \in group})
                attended == MaxOf({x.attended_classes : x \in group})
            IN  Cardinality(group) > 1 =>
                    {x \in tx'.attendance : x.enrollment_id = a.enrollment_id}
                        = {Attendance(MinOf(Ids(group)), a.enrollment_id,
                                      total, Min2(attended, total))}]_vars

\* rows (0, 0), (0, 1), (1, 0) of one enrollment have been merged into (1, 0):
\* the clamp after the second row lost the attended value 1
C11_Witness ==
    /\ run = 1
    /\ pc = "enrollments"
    /\ legacy.attendance = {Attendance(1, 1, 0, 0), Attendance(2, 1, 0, 1),
                            Attendance(3, 1, 1, 0)}
    /\ tx.attendance = {Attendance(1, 1, 1, 0)}

\* the Mark m of the store `old` is in the store `new` with the values it had,
\* on an Enrollment of the same student and course (as merged), not a later one
MarkKept(old, new, m) ==
    \E n \in new.marks :
        /\ n.id = m.id
        /\ n.assessment = m.assessment
        /\ n.marks_obtained = m.marks_obtained
        /\ n.max_marks = m.max_marks
        /\ \A e \in old.enrollments :
              e.id = m.enrollment_id =>
                  \E k \in new.enrollments :
                      /\ k.id = n.enrollment_id
                      /\ k.id <= e.id
                      /\ StudentBecame(old, new, e.student_id, k.student_id)
                      /\ CourseBecame(old, new, e.course_id, k.course_id)
                      /\ \A x \in new.enrollments :
                            (x.student_id = k.student_id /\ x.course_id = k.course_id)
                                => x = k

\* C12: every Mark of the pre-existing store is in the store after the run with
\* its assessment, marks_obtained and max_marks, and a Mark of an Enrollment
\* belongs afterwards to the one Enrollment that remains for its student and course.
C12_MarksKept ==
    (run = 1 /\ pc \in {"indexes", "ready"}) =>
        /\ Ids(tx.marks) = Ids(legacy.marks)
        /\ \A m \in legacy.marks : MarkKept(legacy, tx, m)

\* two Marks with different values, one of them on a duplicate Enrollment that
\* the committed run removed, are both on the keeper
C12_Witness ==
    /\ run = 1
    /\ pc = "ready"
    /\ ~UniquePair(legacy)
    /\ \E m \in legacy.marks, n \in legacy.marks :
          /\ m.marks_obtained # n.marks_obtained
          /\ m.enrollment_id \notin Ids(db.enrollments)
          /\ m.enrollment_id \in Ids(legacy.enrollments)
    /\ \A m \in db.marks : m.enrollment_id = 1

\* C13: when the enrollment pass merges Enrollments of one (student, course)
\* pair, the keeper has no Attendance and one duplicate has one, the keeper has
\* afterwards an Attendance row with that duplicate's total_classes and
\* attended_classes.
C13_AttendanceRepointed ==
    [][(pc = "enrollments" /\ pc' = "indexes") =>
        \A e \in tx.enrollments :
            LET group == {x \in tx.enrollments : /\ x.student_id = e.student_id
                                                 /\ x.course_id = e.course_id}
                atts == {a \in tx.attendance : a.enrollment_id \in Ids(group)}
            IN  (/\ Cardinality(group) > 1
                 /\ Lowest(e, group)
                 /\ AttendanceRows(tx, e.id) = {}
                 /\ Cardinality(atts) = 1) =>
                    \E a \in tx'.attendance, d \in atts :
                        /\ a.enrollment_id = e.id
                        /\ a.total_classes = d.total_classes
                        /\ a.attended_classes = d.attended_classes]_vars

\* Enrollments 1 and 2 of one pair, the Attendance (1 of 1) on Enrollment 2: the
\* committed run kept Enrollment 1 and no Attendance row at all
C13_Witness ==
    /\ run = 1
    /\ pc = "ready"
    /\ legacy.enrollments = {Enrollment(1, 1, 1), Enrollment(2, 1, 1)}
    /\ legacy.attendance = {Attendance(1, 2, 1, 1)}
    /\ db.enrollments = {Enrollment(1, 1, 1)}
    /\ db.attendance = {}

----------------------------------------------------------------------------
(* Properties of the service layer's inputs and failures, under Spec *)

\* the body of an open boundary may call a service function
Callable == pc = "ready" /\ session = "active" /\ ops < MaxOps

\* s without the blanks around it
Trimmed(s) ==
    CHOOSE t \in {SubSeq(s, i, j) : i \in 1..(Len(s) + 1), j \in 0..Len(s)} :
        /\ \E i \in 1..(Len(s) + 1), j \in 0..Len(s) :
              /\ t = SubSeq(s, i, j)
              /\ \A k \in 1..(i - 1) : s[k] = " "
              /\ \A k \in (j + 1)..Len(s) : s[k] = " "
        /\ t # <<>> => (t[1] # " " /\ t[Len(t)] # " ")

\* C14: a create_student that succeeds is followed, once committed, by a
\* list_students that holds a row with the trimmed roll number; a create_student
\* whose trimmed roll number is that of an existing Student raises the
\* duplicate-roll error, changes nothing, and the step that raises it leaves the
\* committed store as it was.
C14_CreateThenList ==
    /\ [](Callable =>
            \A roll_no \in RollInputs, name \in NameInputs :
                LET r == create_student(tx, deleted, roll_no, name)
                    listed == list_students(Committed(db, r.st, r.del))
                IN  /\ r.err \in {NoError, RollExists}
                    /\ (\E s \in tx.students : s.roll_no = Trimmed(roll_no)) =>
                            (r.err = RollExists /\ r.st = tx /\ r.del = deleted)
                    /\ r.err = NoError =>
                            \E i \in DOMAIN listed :
                                listed[i].roll_no = Trimmed(roll_no))
    /\ [][(session = "active" /\ raised' = RollExists) => db' = db]_vars

\* the only Student is "x", listed, and a second create_student for that roll
\* number ("x" or "x ") has been rejected
C14_Witness ==
    /\ session = "closed"
    /\ raised = RollExists
    /\ Cardinality(db.students) = 1
    /\ \E i \in DOMAIN list_students(db) : list_students(db)[i].roll_no = <<"x">>

\* C15: a create_student whose trimmed roll number differs from an existing
\* Student's only in letter case raises the duplicate-roll error and changes
\* nothing.
C15_CaseVariantRejected ==
    Callable =>
        \A roll_no \in RollInputs, name \in NameInputs :
            LET r == create_student(tx, deleted, roll_no, name)
            IN  (\E s \in tx.students : Upper(s.roll_no) = Upper(Trimmed(roll_no))) =>
                    (r.err = RollExists /\ r.st = tx)

\* Students "x" and "X" are both committed
C15_Witness ==
    /\ session = "closed"
    /\ raised = NoError
    /\ {s.roll_no : s \in db.students} = {<<"x">>, <<"X">>}

Lowercase == {"a", "c", "d", "m", "n", "q", "x"}

\* the texts a and b are equal up to the case of their letters
SameLetters(a, b) ==
    /\ Len(a) = Len(b)
    /\ \A i \in 1..Len(a) :
          \/ a[i] = b[i]
          \/ (a[i] \in Lowercase /\ Ord(a[i]) - Ord(b[i]) = 32)
          \/ (b[i] \in Lowercase /\ Ord(b[i]) - Ord(a[i]) = 32)

CodeClean(st) ==
    \A c \in st.courses :
        /\ \A i \in 1..Len(c.code) : c.code[i] \notin Lowercase
        /\ Trimmed(c.code) = c.code

\* C16: every stored Course code is trimmed and upper-case; create_course with
\* a code that equals an existing code up to case and surrounding blanks, and
\* update_course (of a Course the transaction has not deleted) to such a code
\* of another Course, raise the duplicate-code error and change nothing, and the
\* step that raises it leaves the committed store as it was.
C16_CodesUpperCase ==
    /\ [](/\ CodeClean(db)
          /\ CodeClean(tx)
          /\ Callable =>
                \A code \in CodeInputs, name \in NameInputs :
                    /\ LET r == create_course(tx, deleted, code, name)
                       IN  (\E c \in tx.courses : SameLetters(c.code, Trimmed(code)))
                               => (r.err = CodeExists /\ r.st = tx)
                    /\ \A course_id \in Ids(tx.courses) \ DeletedIds(deleted, "course") :
                          LET r == update_course(tx, deleted, course_id, code, name)
                          IN  (\E c \in tx.courses :
                                    /\ c.id # course_id
                                    /\ SameLetters(c.code, Trimmed(code)))
                                  => (r.err = CodeExists /\ r.st = tx))
    /\ [][(session = "active" /\ raised' = CodeExists) => db' = db]_vars

\* Courses "C" and "D" are committed (typed as "c" or " C", and "d") and a
\* create or rename to a variant of one of them has been rejected
C16_Witness ==
    /\ session = "closed"
    /\ raised = CodeExists
    /\ {c.code : c \in db.courses} = {<<"C">>, <<"D">>}

\* C17: create_student and update_student raise a ServiceError and change
\* nothing when the roll number or the name is empty after trimming, and
\* create_course and update_course when the code is.
C17_EmptyRejected ==
    Callable =>
        /\ \A roll_no \in RollInputs \cup BlankInputs,
              name \in NameInputs \cup BlankInputs :
              (Trimmed(roll_no) = <<>> \/ Trimmed(name) = <<>>) =>
                  /\ LET r == create_student(tx, deleted, roll_no, name)
                     IN  r.err \in ServiceErrors /\ r.st = tx
                  /\ \A student_id \in Ids(tx.students) :
                        LET r == update_student(tx, deleted, student_id, roll_no, name)
                        IN  r.err \in ServiceErrors /\ r.st = tx
        /\ \A code \in BlankInputs, name \in NameInputs :
              /\ LET r == create_course(tx, deleted, code, name)
                 IN  r.err \in ServiceErrors /\ r.st = tx
              /\ \A course_id \in Ids(tx.courses) :
                    LET r == update_course(tx, deleted, course_id, code, name)
                    IN  r.err \in ServiceErrors /\ r.st = tx

\* a Student with the roll number "" is committed, and create_course(" ", "n")
\* would return normally and its commit store a Course with the code ""
C17_Witness ==
    /\ Callable
    /\ \E x \in db.students : x.roll_no = <<>>
    /\ LET r == create_course(tx, deleted, <<" ">>, <<"n">>)
       IN  /\ r.err = NoError
           /\ \E x \in Committed(db, r.st, r.del).courses : x.code = <<>>

\* C18: on an existing enrollment, set_attendance with a negative total or
\* attended value raises the must-be->=0 error, and with non-negative values and
\* attended > total the exceeds-total error; the call changes nothing (no
\* Attendance row is created, an existing one keeps its values), and the step
\* that raises the error leaves the committed store as it was.
C18_InvalidAttendanceRejected ==
    /\ [](Callable =>
            \A e \in Ids(tx.enrollments), total \in ClassCounts, attended \in ClassCounts :
                LET r == set_attendance(tx, deleted, e, total, attended)
                IN  /\ (total < 0 \/ attended < 0) =>
                            (r.err = AttendanceNegative /\ r.st = tx /\ r.del = deleted)
                    /\ (total >= 0 /\ attended >= 0 /\ attended > total) =>
                            (r.err = AttendanceExceeds /\ r.st = tx /\ r.del = deleted))
    /\ [][(session = "active" /\ raised' \in {AttendanceNegative, AttendanceExceeds})
            => db' = db]_vars

\* an enrollment has a committed Attendance row with one class, and a
\* set_attendance on an enrollment has been rejected as exceeding the total
C18_Witness ==
    /\ session = "closed"
    /\ raised = AttendanceExceeds
    /\ \E a \in db.attendance : a.total_classes = 1

\* C19: add_mark with max_marks <= 0, or with marks_obtained below 0 or above
\* max_marks, raises a ServiceError (the max-marks error for the first, the
\* range error otherwise) and inserts no Mark; the step that raises it leaves
\* the committed store as it was.
C19_InvalidMarkRejected ==
    /\ [](Callable =>
            \A e \in EnrollIds, assessment \in AssessInputs,
               obtained \in MarkValues, maximum \in MaxMarkValues :
                LET r == add_mark(tx, deleted, e, assessment, obtained, maximum)
                IN  (maximum <= 0 \/ obtained < 0 \/ obtained > maximum) =>
                        /\ r.err \in ServiceErrors
                        /\ r.st = tx
                        /\ Get(tx.enrollments, e) # {} =>
                              r.err = IF maximum <= 0 THEN MaxMarksPositive
                                      ELSE MarksRange)
    /\ [][(session = "active" /\ raised' \in {MaxMarksPositive, MarksRange})
            => db' = db]_vars

\* an add_mark has been rejected for its max_marks while a Mark is committed
C19_Witness ==
    /\ session = "closed"
    /\ raised = MaxMarksPositive
    /\ db.marks # {}

----------------------------------------------------------------------------
(* Properties of the marks register, under SpecMarks *)

\* a step in which a service call returned normally and the view changed:
\* under SpecMarks a successful add_mark (delete_mark writes nothing before
\* the commit)
AddMarkStep ==
    /\ session = "active"
    /\ session' = "active"
    /\ ops' = ops + 1
    /\ tx' # tx

\* the Marks of the view that the transaction has not deleted
LiveMarks == {m \in tx.marks : m.id \notin DeletedIds(deleted, "mark")}

\* C20: a successful add_mark leaves every existing Mark (not deleted earlier
\* in the transaction) as it was and adds exactly one Mark, so its enrollment's
\* list of Marks is one longer, also when the enrollment already has a Mark with
\* the same assessment label.
C20_AddMarkAppends ==
    [][AddMarkStep =>
        /\ LiveMarks \subseteq tx'.marks
        /\ Cardinality(tx'.marks \ LiveMarks) = 1
        /\ \A m \in tx'.marks \ LiveMarks :
              /\ m.id \notin Ids(tx.marks)
              /\ Len(list_marks_for_enrollment(tx', m.enrollment_id))
                    = Cardinality({x \in LiveMarks :
                                     x.enrollment_id = m.enrollment_id}) + 1
              /\ list_marks_for_enrollment(tx', m.enrollment_id)[1] = m]_vars

\* an enrollment has two committed Marks with the same assessment label and
\* different values
C20_Witness ==
    /\ session = "closed"
    /\ raised = NoError
    /\ \E m \in db.marks, n \in db.marks :
          /\ m.id # n.id
          /\ m.enrollment_id = n.enrollment_id
          /\ m.assessment = n.assessment
          /\ m.marks_obtained # n.marks_obtained

----------------------------------------------------------------------------
(* Operations given the id of a row that does not exist *)

NotFoundErrors ==
    {StudentNotFound, CourseNotFound, EnrollmentNotFound, MarkNotFound}

\* the call raised err and handed back the session's view as it got it
Refused(r, err) == r.err = err /\ r.st = tx /\ r.del = deleted

\* C21: every operation that takes the id of a row that does not exist
\* (update_student, delete_student, update_course, delete_course,
\* enroll_student with an absent student or an absent course,
\* remove_enrollment, set_attendance, add_mark, delete_mark) raises the
\* error that names the missing entity and writes nothing: the view of the
\* session is what it was, enroll_student adds no Enrollment, and the
\* boundary that ends with that error leaves the store as it was.
C21_MissingRowRejected ==
    /\ [](Callable =>
            /\ \A s \in StudentIds \ Ids(tx.students) :
                /\ \A roll \in RollInputs, name \in NameInputs :
                      Refused(update_student(tx, deleted, s, roll, name),
                              StudentNotFound)
                /\ Refused(delete_student(tx, deleted, s), StudentNotFound)
                /\ \A c \in CourseIds :
                      Refused(enroll_student(tx, deleted, s, c), StudentNotFound)
            /\ \A c \in CourseIds \ Ids(tx.courses) :
                /\ \A code \in CodeInputs, name \in NameInputs :
                      Refused(update_course(tx, deleted, c, code, name),
                              CourseNotFound)
                /\ Refused(delete_course(tx, deleted, c), CourseNotFound)
                /\ \A s \in Ids(tx.students) :
                      LET r == enroll_student(tx, deleted, s, c)
                      IN  /\ Refused(r, CourseNotFound)
                          /\ r.st.enrollments = tx.enrollments
            /\ \A e \in EnrollIds \ Ids(tx.enrollments) :
                /\ Refused(remove_enrollment(tx, deleted, e), EnrollmentNotFound)
                /\ \A t \in ClassCounts, a \in ClassCounts :
                      Refused(set_attendance(tx, deleted, e, t, a),
                              EnrollmentNotFound)
                /\ \A label \in AssessInputs, o \in MarkValues,
                      m \in MaxMarkValues :
                      Refused(add_mark(tx, deleted, e, label, o, m),
                              EnrollmentNotFound)
            /\ \A m \in MarkIds \ Ids(tx.marks) :
                  Refused(delete_mark(tx, deleted, m), MarkNotFound))
    /\ [][(RaiseStep /\ raised' \in NotFoundErrors) => db' = db /\ tx' = db]_vars

\* a boundary ended with "Course not found" (an absent course id was given
\* while a student exists); the store lacks a course and has no Enrollment
C21_Witness ==
    /\ session = "closed"
    /\ raised = CourseNotFound
    /\ db.students # {}
    /\ Ids(db.courses) # CourseIds
    /\ db.enrollments = {}
    /\ ~last.wrote

----------------------------------------------------------------------------
(* What a read sees right after a call, in the same transaction *)

Listed(rows) == {rows[i].id : i \in 1..Len(rows)}

\* C22: every mutating operation, delete_student, delete_course,
\* remove_enrollment and delete_mark included, has flushed its change when it
\* returns: nothing it deleted is still pending, and a read issued in the
\* same transaction right after it (list_enrollments after delete_student,
\* list_students, list_marks_for_enrollment) no longer returns a row the
\* call deleted.
C22_FlushedOnReturn ==
    (pc = "ready" /\ session = "active" /\ ops > 0) =>
        /\ deleted = NoDeletes
        /\ Listed(list_enrollments(tx)) \cap DeletedIds(deleted, "enrollment") = {}
        /\ Listed(list_students(tx)) \cap DeletedIds(deleted, "student") = {}
        /\ \A e \in Ids(tx.enrollments) :
              Listed(list_marks_for_enrollment(tx, e))
                  \cap DeletedIds(deleted, "mark") = {}

\* delete_student has returned and list_enrollments, in the same transaction,
\* still returns an enrollment of the deleted student
C22_Witness ==
    /\ pc = "ready"
    /\ session = "active"
    /\ ops > 0
    /\ \E s \in DeletedIds(deleted, "student") :
          \E i \in 1..Len(list_enrollments(tx)) :
              list_enrollments(tx)[i].student_id = s

----------------------------------------------------------------------------
(* Process start (main.py: main -- init_db(), then run()): the database file
   may be a legacy one, and the front end's boundaries come after init_db *)

MaxStartRows == 4

InitStart == LegacyInit(MaxStartRows, 0)

\* init_db's steps, then boundaries of the front end
NextStart ==
    \/ NextRecon
    \/ Begin
    \/ Commit
    \/ StoreFails
    \/ EnrollStudent
    \/ DeleteStudent

SpecStart == InitStart /\ [][NextStart]_vars

InitSteps == {"students", "courses", "attendance", "enrollments", "indexes"}

StartOrder ==
    {<<"boot", "students">>, <<"students", "courses">>,
     <<"courses", "attendance">>, <<"attendance", "enrollments">>,
     <<"enrollments", "indexes">>, <<"indexes", "ready">>,
     <<"indexes", "failed">>, <<"ready", "boot">>}

\* C23: at process start init_db creates the schema, then runs the
\* reconciliation exactly once (its four passes, each once, in order), then
\* installs the unique indexes, and only after all three is a boundary of the
\* service layer or of the analytics opened: the steps follow one another in
\* that order with none repeated in a run, the view handed to the index step
\* is the reconciled store, the store that is ready on SQLite has its
\* uniqueness enforced, and outside init_db a session is open, and the store
\* or its view changes, only when init_db has completed.
C23_InitBeforeService ==
    /\ [][pc' # pc => <<pc, pc'>> \in StartOrder]_vars
    /\ [](pc = "indexes" => tx = cleanup_duplicates(db) /\ deleted = NoDeletes)
    /\ []((pc = "ready" /\ dialect = "sqlite") => UniqueOk(db))
    /\ [](session = "active" => pc \in InitSteps \cup {"ready"})
    /\ []((session = "active" /\ ops > 0) => pc = "ready")
    /\ [][(pc \notin InitSteps /\ <<db, tx, deleted>>' # <<db, tx, deleted>>)
             => pc = "ready"]_vars

\* on a legacy store with a duplicated roll number init_db has completed in
\* the first run, and a service call has then run in a boundary of the front
\* end, on a store whose roll numbers are unique
C23_Witness ==
    /\ ~UniqueRoll(legacy)
    /\ run = 1
    /\ pc = "ready"
    /\ session = "active"
    /\ ops > 0
    /\ UniqueOk(db)
    /\ db # legacy

----------------------------------------------------------------------------
(* Release of the transaction boundary.  The body of a `with session_scope()`
   block is finite straight-line code, so control always reaches
   session.commit() or the except clause: the commit is taken if it stays
   enabled. *)

SpecScope == SpecMarks /\ WF_vars(Commit)

\* C24: every boundary that is opened is eventually released, exactly once:
\* an open session is eventually closed; the step that ends it after a normal
\* return commits the view; a step that raises, from the body or from the
\* commit, rolls back and closes the session in the same step; and only the
\* step that closes an open session ends a boundary.
C24_BoundaryReleased ==
    /\ (session = "active") ~> (session = "closed")
    /\ [][CommitStep => db' = Committed(db, tx, deleted)]_vars
    /\ [][(session = "active" /\ raised' # raised) =>
             session' = "closed" /\ db' = db /\ tx' = db]_vars
    /\ [][(last' # last /\ last' # NoBoundary) =>
             session = "active" /\ session' = "closed"]_vars
    /\ [](session = "closed" => tx = db /\ deleted = NoDeletes)

\* a boundary that had written a Mark was ended by a failure and is closed,
\* with the store as it was before
C24_Witness ==
    /\ session = "closed"
    /\ raised = StoreFailure
    /\ last.wrote
    /\ db.marks = {}

----------------------------------------------------------------------------
(* Analytics (services.py: _pct and the four analytics functions).
   A percentage is held in hundredths of a percent: 33.33 is 3333. *)

\* Python's None
None == [defined |-> FALSE]

Value(hundredths) == [defined |-> TRUE, hundredths |-> hundredths]

\* the integer nearest to p / q for q > 0, a tie going to the even one
\* (round() on a value that lies exactly half way)
RoundHalfEven(p, q) ==
    LET f == p \div q
        r == p % q
    IN  IF 2 * r < q THEN f
        ELSE IF 2 * r > q THEN f + 1
        ELSE IF f % 2 = 0 THEN f ELSE f + 1

\* round(x, 2) of x = p / q, in hundredths
Round2(p, q) == IF q > 0 THEN RoundHalfEven(100 * p, q)
                ELSE RoundHalfEven(100 * (0 - p), 0 - q)

\* variant: a non-positive denominator gives 0.0
pct_zero(numer, denom) ==
    IF denom <= 0 THEN Value(0) ELSE Value(Round2(numer * 100, denom))

_pct(numer, denom) ==
    IF denom <= 0 THEN None ELSE Value(Round2(numer * 100, denom))

\* variant: ORDER BY id DESC
NewestFirst(rows) == DescById(rows)

\* ORDER BY id
RECURSIVE AscById(_)
AscById(rows) ==
    IF rows = {} THEN <<>>
    ELSE LET first == CHOOSE r \in rows : \A o \in rows : r.id <= o.id
         IN  <<first>> \o AscById(rows \ {first})

\* sum(m.marks_obtained for m in e.marks)
RECURSIVE SumObtained(_)
SumObtained(marks) ==
    IF marks = {} THEN 0
    ELSE LET m == CHOOSE x \in marks : TRUE
         IN  m.marks_obtained + SumObtained(marks \ {m})

\* sum(m.max_marks for m in e.marks)
RECURSIVE SumMaximum(_)
SumMaximum(marks) ==
    IF marks = {} THEN 0
    ELSE LET m == CHOOSE x \in marks : TRUE
         IN  m.max_marks + SumMaximum(marks \ {m})

\* e.marks
MarksOf(st, enrollment_id) == {m \in st.marks : m.enrollment_id = enrollment_id}

\* e.attendance (uselist=False): the row of the enrollment, if there is one
AttendanceRow(st, enrollment_id) ==
    {a \in st.attendance : a.enrollment_id = enrollment_id}

\* attendance_pct = _pct(attended, total), both 0 when there is no row
AttendancePct(st, enrollment_id) ==
    LET rows == AttendanceRow(st, enrollment_id)
        a == CHOOSE x \in rows : \A o \in rows : x.id <= o.id
    IN  IF rows = {} THEN _pct(0, 0)
        ELSE _pct(a.attended_classes, a.total_classes)

\* marks_pct = _pct(obtained, maximum)
MarksPct(st, enrollment_id) ==
    _pct(SumObtained(MarksOf(st, enrollment_id)),
         SumMaximum(MarksOf(st, enrollment_id)))

EnrollmentSummary(st, e) ==
    LET course == CHOOSE c \in st.courses : c.id = e.course_id
    IN  [enrollment_id |-> e.id,
         course_code |-> course.code,
         course_name |-> course.name,
         attendance_pct |-> AttendancePct(st, e.id),
         marks_pct |-> MarksPct(st, e.id)]

get_student_enrollment_summaries(st, student_id) ==
    LET enrollments == AscById({e \in st.enrollments : e.student_id = student_id})
    IN  [i \in 1..Len(enrollments) |-> EnrollmentSummary(st, enrollments[i])]

\* the sum of the fractions num / den of a set of rows, as <<numerator,
\* denominator>>
RECURSIVE SumRatios(_)
SumRatios(rows) ==
    IF rows = {} THEN <<0, 1>>
    ELSE LET r == CHOOSE x \in rows : TRUE
             rest == SumRatios(rows \ {r})
         IN  <<r.num * rest[2] + rest[1] * r.den, r.den * rest[2]>>

\* round(float(avg((num / den) * 100.0)), 2); avg of no row is NULL
AvgPct(rows) ==
    LET total == SumRatios(rows)
    IN  IF rows = {} THEN None
        ELSE Value(Round2(total[1] * 100, total[2] * Cardinality(rows)))

\* variant: one quotient of the pooled sums
AvgPctPooled(rows) ==
    LET obtained == SumObtained({[marks_obtained |-> r.num, id |-> r.id] : r \in rows})
        maximum == SumMaximum({[max_marks |-> r.den, id |-> r.id] : r \in rows})
    IN  IF rows = {} THEN None ELSE Value(Round2(obtained * 100, maximum))

\* variant: integer division of the two Integer columns
AvgPctTruncated(rows) ==
    IF rows = {} THEN None
    ELSE Value(Round2(SumObtained({[marks_obtained |-> r.num \div r.den, id |-> r.id]
                                      : r \in rows}) * 100,
                      Cardinality(rows)))

\* sum(marks_obtained), sum(max_marks) ... JOIN enrollments WHERE course_id = ?
\* GROUP BY marks.enrollment_id; a quotient by zero is NULL, which avg skips
MarkGroups(st, course_id) ==
    LET graded == {e \in st.enrollments :
                      e.course_id = course_id /\ MarksOf(st, e.id) # {}}
        groups == {[id |-> e.id,
                    num |-> SumObtained(MarksOf(st, e.id)),
                    den |-> SumMaximum(MarksOf(st, e.id))] : e \in graded}
    IN  {g \in groups : g.den # 0}

\* avg((subq.c.obtained / subq.c.maximum) * 100.0), rounded
MarksAvg(rows) == AvgPct(rows)

course_class_average_marks_pct(st, course_id) ==
    MarksAvg(MarkGroups(st, course_id))

\* attendance JOIN enrollments WHERE course_id = ? AND total_classes > 0
AttendanceGroups(st, course_id) ==
    {[id |-> a.id, num |-> a.attended_classes, den |-> a.total_classes] :
        a \in {x \in st.attendance :
                  /\ x.total_classes > 0
                  /\ \E e \in st.enrollments :
                        e.id = x.enrollment_id /\ e.course_id = course_id}}

\* avg((subq.c.attended / subq.c.total) * 100.0), rounded: the `/` of two
\* Integer columns is true division (rendered with a cast on SQLite)
AttendanceAvg(rows) == AvgPct(rows)

course_class_average_attendance_pct(st, course_id) ==
    AttendanceAvg(AttendanceGroups(st, course_id))

DefaultAttendanceThreshold == 7500
DefaultMarksThreshold == 4000

\* ", ".join(reasons)
RECURSIVE Join(_)
Join(reasons) ==
    IF Len(reasons) = 0 THEN ""
    ELSE IF Len(reasons) = 1 THEN Head(reasons)
    ELSE Head(reasons) \o ", " \o Join(Tail(reasons))

\* variant: a percentage equal to the threshold is low as well
BelowOrEqual(pct, threshold) == pct.defined /\ pct.hundredths <= threshold

\* pct is not None and pct < threshold
Below(pct, threshold) == pct.defined /\ pct.hundredths < threshold

AtRiskEntry(st, e, attendance_threshold, marks_threshold) ==
    LET student == CHOOSE s \in st.students : s.id = e.student_id
        course == CHOOSE c \in st.courses : c.id = e.course_id
        attendance_pct == AttendancePct(st, e.id)
        marks_pct == MarksPct(st, e.id)
        low_attendance == Below(attendance_pct, attendance_threshold)
        low_marks == Below(marks_pct, marks_threshold)
        reasons == (IF low_attendance THEN <<"Low attendance">> ELSE <<>>)
                   \o (IF low_marks THEN <<"Low marks">> ELSE <<>>)
    IN  [enrollment_id |-> e.id,
         roll_no |-> student.roll_no,
         student_name |-> student.name,
         course_code |-> course.code,
         course_name |-> course.name,
         attendance_pct |-> attendance_pct,
         marks_pct |-> marks_pct,
         reason |-> Join(reasons)]

\* the entries of find_at_risk: `if low_attendance or low_marks`
AtRiskEntries(st, attendance_threshold, marks_threshold) ==
    {AtRiskEntry(st, e, attendance_threshold, marks_threshold) :
        e \in {x \in st.enrollments :
                  \/ Below(AttendancePct(st, x.id), attendance_threshold)
                  \/ Below(MarksPct(st, x.id), marks_threshold)}}

\* the lists that hold each row of a set once
Orderings(rows) ==
    {seq \in [1..Cardinality(rows) -> rows] :
        \A i, j \in 1..Cardinality(rows) : seq[i] = seq[j] => i = j}

\* The SELECT has no ORDER BY: the result is a list of the entries in an
\* order the database chooses; find_at_risk is the set of lists it may return
find_at_risk(st, attendance_threshold, marks_threshold) ==
    Orderings(AtRiskEntries(st, attendance_threshold, marks_threshold))

\* ORDER BY code
RECURSIVE AscByCode(_)
AscByCode(rows) ==
    IF rows = {} THEN <<>>
    ELSE LET first == CHOOSE r \in rows :
                 \A t \in rows : \/ StrLess(r.code, t.code)
                                 \/ (r.code = t.code /\ r.id <= t.id)
         IN  <<first>> \o AscByCode(rows \ {first})

list_courses(st) == AscByCode(st.courses)

----------------------------------------------------------------------------
(* Reads.  The front end runs each read in a boundary of its own
   (`with session_scope() as session:` around one list_* or analytics call);
   `result` holds what the call returned. *)

\* variant: the read marks every Mark of the view for deletion
ReadAndDelete(value) ==
    /\ pc = "ready"
    /\ session = "active"
    /\ ops < MaxOps
    /\ result' = value
    /\ ops' = ops + 1
    /\ deleted' = deleted \cup {<<"mark", m.id>> : m \in tx.marks}
    /\ UNCHANGED <<db, tx, session, raised, last, pc, run, legacy, dialect, peer>>

\* session.execute(select(...)): nothing is pending, nothing is flushed
Read(value) ==
    /\ pc = "ready"
    /\ session = "active"
    /\ ops < MaxOps
    /\ result' = value
    /\ ops' = ops + 1
    /\ UNCHANGED <<db, tx, deleted, session, raised, last, pc, run, legacy, dialect, peer>>

ThresholdInputs ==
    {<<DefaultAttendanceThreshold, DefaultMarksThreshold>>, <<5000, 5000>>}

Summaries ==
    \E student_id \in StudentIds :
        Read([op |-> "get_student_enrollment_summaries", student_id |-> student_id,
              value |-> get_student_enrollment_summaries(tx, student_id)])

AverageMarks ==
    \E course_id \in CourseIds :
        Read([op |-> "course_class_average_marks_pct", course_id |-> course_id,
              value |-> course_class_average_marks_pct(tx, course_id)])

AverageAttendance ==
    \E course_id \in CourseIds :
        Read([op |-> "course_class_average_attendance_pct", course_id |-> course_id,
              value |-> course_class_average_attendance_pct(tx, course_id)])

AtRisk ==
    \E t \in ThresholdInputs :
        \E rows \in find_at_risk(tx, t[1], t[2]) :
            Read([op |-> "find_at_risk", attendance_threshold |-> t[1],
                  marks_threshold |-> t[2], value |-> rows])

ListStudents == Read([op |-> "list_students", value |-> list_students(tx)])

ListCourses == Read([op |-> "list_courses", value |-> list_courses(tx)])

ListEnrollments == Read([op |-> "list_enrollments", value |-> list_enrollments(tx)])

ListMarks ==
    \E enrollment_id \in EnrollIds :
        Read([op |-> "list_marks_for_enrollment", enrollment_id |-> enrollment_id,
              value |-> list_marks_for_enrollment(tx, enrollment_id)])

\* A college register as the service layer leaves it: two Students, two
\* Courses, up to MaxRegEnroll Enrollments of distinct pairs, at most one
\* Attendance row each, and up to MaxRegMarks Marks
MaxRegEnroll == 2
MaxRegMarks == 2

\* <<total_classes, attended_classes>>
AttendanceReadings == {<<0, 0>>, <<1, 1>>, <<2, 1>>}

\* <<marks_obtained, max_marks>>
MarkReadings == {<<0, 1>>, <<1, 1>>, <<1, 2>>}

RegisterOf(enr, att, mk) ==
    [students |-> {Student(1, <<"x">>, <<"n">>), Student(2, <<"X">>, <<"n">>)},
     courses |-> {Course(1, <<"C">>, <<"n">>), Course(2, <<"D">>, <<"n">>)},
     enrollments |-> {Enrollment(i, enr[i][1], enr[i][2]) : i \in DOMAIN enr},
     attendance |-> {Attendance(i, i, att[i][1], att[i][2]) :
                        i \in {j \in DOMAIN att : att[j] # <<>>}},
     marks |-> {Mark(i, mk[i][1], Exam, mk[i][2][1], mk[i][2][2]) : i \in DOMAIN mk}]

InitAnalytics ==
    /\ \E nE \in 0..MaxRegEnroll, nM \in 0..MaxRegMarks :
         \E enr \in [1..nE -> (1..2) \X (1..2)],
            att \in [1..nE -> AttendanceReadings \cup {<<>>}],
            mk \in [1..nM -> (1..nE) \X MarkReadings] :
           /\ \A i, j \in 1..nE : enr[i] = enr[j] => i = j
           /\ db = RegisterOf(enr, att, mk)
    /\ tx = db
    /\ deleted = NoDeletes
    /\ session = "closed"
    /\ ops = 0
    /\ raised = NoError
    /\ last = NoBoundary
    /\ pc = "ready"
    /\ run = 1
    /\ legacy = EmptyStore
    /\ dialect = "sqlite"
    /\ result = NoResult
    /\ peer = NoPeer

NextAnalytics ==
    \/ Begin
    \/ Commit
    \/ Summaries
    \/ AverageMarks
    \/ AverageAttendance
    \/ AtRisk
    \/ ListStudents
    \/ ListCourses
    \/ ListEnrollments
    \/ ListMarks

SpecAnalytics == InitAnalytics /\ [][NextAnalytics]_vars

----------------------------------------------------------------------------
(* Properties of the analytics, under SpecAnalytics *)

\* the enrollment has an Attendance row with classes held and its percentage
\* is strictly below the threshold
AttendanceLow(st, e, threshold) ==
    \E a \in st.attendance :
        /\ a.enrollment_id = e.id
        /\ a.total_classes > 0
        /\ _pct(a.attended_classes, a.total_classes).hundredths < threshold

\* the enrollment has Marks and their percentage is strictly below the threshold
MarksLow(st, e, threshold) ==
    LET marks == {m \in st.marks : m.enrollment_id = e.id}
    IN  /\ marks # {}
        /\ _pct(SumObtained(marks), SumMaximum(marks)).hundredths < threshold

\* C25: find_at_risk returns exactly one entry for each Enrollment whose
\* attendance percentage is defined and strictly below the attendance
\* threshold or whose marks percentage is defined and strictly below the marks
\* threshold, and no other entry; the entry's reason names "Low attendance"
\* and/or "Low marks" for exactly the dimensions that triggered; an Enrollment
\* with no Attendance row or with total_classes = 0 is never flagged for
\* attendance and one with no Marks is never flagged for marks.
C25_AtRiskExact ==
    result.op = "find_at_risk" =>
        LET rows == result.value
            at == result.attendance_threshold
            mt == result.marks_threshold
        IN  /\ \A e \in tx.enrollments :
                  LET hits == {i \in 1..Len(rows) : rows[i].enrollment_id = e.id}
                  IN  /\ Cardinality(hits) =
                            IF AttendanceLow(tx, e, at) \/ MarksLow(tx, e, mt)
                            THEN 1 ELSE 0
                      /\ \A i \in hits :
                            rows[i].reason =
                                IF AttendanceLow(tx, e, at) /\ MarksLow(tx, e, mt)
                                THEN "Low attendance, Low marks"
                                ELSE IF AttendanceLow(tx, e, at)
                                THEN "Low attendance"
                                ELSE "Low marks"
            /\ \A i \in 1..Len(rows) :
                  /\ \E e \in tx.enrollments : e.id = rows[i].enrollment_id
                  /\ ~rows[i].attendance_pct.defined =>
                        rows[i].reason = "Low marks"
                  /\ ~rows[i].marks_pct.defined =>
                        rows[i].reason = "Low attendance"

\* with the default thresholds (75, 40): an Enrollment with attendance 1 of 2
\* and marks 1 of 2 is listed for "Low attendance" alone, and another
\* Enrollment with no Attendance row and no Marks is not listed
C25_Witness ==
    /\ result.op = "find_at_risk"
    /\ result.attendance_threshold = DefaultAttendanceThreshold
    /\ result.marks_threshold = DefaultMarksThreshold
    /\ \E i \in 1..Len(result.value) :
          /\ result.value[i].reason = "Low attendance"
          /\ result.value[i].attendance_pct = Value(5000)
          /\ result.value[i].marks_pct = Value(5000)
    /\ \E e \in tx.enrollments :
          /\ AttendanceRow(tx, e.id) = {}
          /\ MarksOf(tx, e.id) = {}
          /\ \A i \in 1..Len(result.value) : result.value[i].enrollment_id # e.id

----------------------------------------------------------------------------
(* The percentage function on its own *)

MaxNumer == 100
MaxDenom == 100

\* the arguments of a call that is about to be made
InitPct ==
    /\ db = EmptyStore
    /\ tx = EmptyStore
    /\ deleted = NoDeletes
    /\ session = "closed"
    /\ ops = 0
    /\ raised = NoError
    /\ last = NoBoundary
    /\ pc = "ready"
    /\ run = 1
    /\ legacy = EmptyStore
    /\ dialect = "sqlite"
    /\ \E numer \in (0 - 1)..MaxNumer, denom \in (0 - 1)..MaxDenom :
          result = [op |-> "args", numer |-> numer, denom |-> denom]
    /\ peer = NoPeer

Percentage ==
    /\ result.op = "args"
    /\ result' = [op |-> "_pct", numer |-> result.numer, denom |-> result.denom,
                  value |-> _pct(result.numer, result.denom)]
    /\ UNCHANGED <<db, tx, deleted, session, ops, raised, last, pc, run, legacy,
                   dialect, peer>>

SpecPct == InitPct /\ [][Percentage]_vars

Abs(n) == IF n < 0 THEN 0 - n ELSE n

\* C26: percentage(n, d) is undefined -- absent, not 0 and not an error --
\* whenever d <= 0, percentage(0, 0) included; otherwise it is defined and is
\* n / d * 100 rounded to two decimals, that is a multiple of 0.01 no further
\* than 0.005 from n / d * 100; percentage(33, 99) = 33.33.
C26_Percentage ==
    result.op = "_pct" =>
        /\ result.denom <= 0 =>
              /\ result.value = None
              /\ result.value # Value(0)
        /\ result.denom > 0 =>
              /\ result.value.defined
              /\ 2 * Abs(result.value.hundredths * result.denom
                             - 10000 * result.numer) <= result.denom
        /\ (result.numer = 33 /\ result.denom = 99) => result.value = Value(3333)

\* percentage(33, 99) has been computed and is 33.33
C26_Witness ==
    /\ result.op = "_pct"
    /\ result.numer = 33
    /\ result.denom = 99
    /\ result.value = Value(3333)

\* v is n / d * 100 to two decimals
IsPct(v, n, d) ==
    /\ v.defined
    /\ 2 * Abs(v.hundredths * d - 10000 * n) <= d

\* C27: the enrollment summary of a Student has exactly one entry for each
\* Enrollment of that Student, in ascending enrollment id; an entry's
\* attendance percentage is that of the Enrollment's Attendance row, undefined
\* when there is no row or its total_classes is 0; its marks percentage is the
\* sum of marks_obtained over the sum of max_marks of all the Enrollment's
\* Marks, undefined when it has no Marks.
C27_SummaryPerEnrollment ==
    result.op = "get_student_enrollment_summaries" =>
        LET rows == result.value
            mine == {e \in tx.enrollments : e.student_id = result.student_id}
        IN  /\ Len(rows) = Cardinality(mine)
            /\ {rows[i].enrollment_id : i \in 1..Len(rows)} = Ids(mine)
            /\ \A i, j \in 1..Len(rows) :
                  i < j => rows[i].enrollment_id < rows[j].enrollment_id
            /\ \A i \in 1..Len(rows) :
                  LET held == {a \in tx.attendance :
                                  /\ a.enrollment_id = rows[i].enrollment_id
                                  /\ a.total_classes > 0}
                      marks == {m \in tx.marks :
                                   m.enrollment_id = rows[i].enrollment_id}
                  IN  /\ IF held = {} THEN rows[i].attendance_pct = None
                         ELSE \A a \in held :
                                 IsPct(rows[i].attendance_pct,
                                       a.attended_classes, a.total_classes)
                      /\ IF marks = {} THEN rows[i].marks_pct = None
                         ELSE IsPct(rows[i].marks_pct,
                                    SumObtained(marks), SumMaximum(marks))

\* a Student with two Enrollments: the first has an Attendance row of 0
\* classes and Marks 1 of 1 and 1 of 2 (66.67), the second has attendance
\* 1 of 2 (50.0) and no Marks
C27_Witness ==
    /\ result.op = "get_student_enrollment_summaries"
    /\ Len(result.value) = 2
    /\ AttendanceRow(tx, result.value[1].enrollment_id) # {}
    /\ result.value[1].attendance_pct = None
    /\ result.value[1].marks_pct = Value(6667)
    /\ result.value[2].attendance_pct = Value(5000)
    /\ result.value[2].marks_pct = None

\* C28: the class average marks percentage of a Course is the arithmetic mean,
\* over the Enrollments of that Course that have at least one Mark, of each
\* Enrollment's own quotient sum of marks_obtained / sum of max_marks * 100
\* (the quotient is taken per Enrollment first, the marks are not pooled
\* across Enrollments), to two decimals; it is undefined when no Enrollment of
\* the Course has a Mark.
C28_MeanOfEnrollmentMarks ==
    result.op = "course_class_average_marks_pct" =>
        LET graded == {e \in tx.enrollments :
                          /\ e.course_id = result.course_id
                          /\ \E m \in tx.marks : m.enrollment_id = e.id}
            own == {[id |-> e.id,
                     num |-> SumObtained({m \in tx.marks : m.enrollment_id = e.id}),
                     den |-> SumMaximum({m \in tx.marks : m.enrollment_id = e.id})]
                       : e \in graded}
            total == SumRatios(own)
        IN  IF graded = {} THEN result.value = None
            ELSE IsPct(result.value, total[1], total[2] * Cardinality(graded))

\* two Enrollments of the Course, one with 1 of 1 (100%) and one with 1 of 2
\* (50%): the average is 75.0, where the pooled marks, 2 of 3, give 66.67
C28_Witness ==
    /\ result.op = "course_class_average_marks_pct"
    /\ result.value = Value(7500)
    /\ \E e, f \in tx.enrollments :
          /\ e.course_id = result.course_id
          /\ f.course_id = result.course_id
          /\ MarksPct(tx, e.id) = Value(10000)
          /\ MarksPct(tx, f.id) = Value(5000)
          /\ SumMaximum(tx.marks) = 3
          /\ SumObtained(tx.marks) = 2

\* C29: the class average attendance percentage of a Course is the arithmetic
\* mean of attended_classes / total_classes * 100, the division being exact
\* and not truncated to an integer, over the Enrollments of that Course whose
\* Attendance row has total_classes > 0, to two decimals; it is undefined when
\* there is no such Enrollment.
C29_MeanOfAttendance ==
    result.op = "course_class_average_attendance_pct" =>
        LET held == {a \in tx.attendance :
                        /\ a.total_classes > 0
                        /\ \E e \in tx.enrollments :
                              /\ e.id = a.enrollment_id
                              /\ e.course_id = result.course_id}
            own == {[id |-> a.enrollment_id, num |-> a.attended_classes,
                     den |-> a.total_classes] : a \in held}
            total == SumRatios(own)
        IN  IF held = {} THEN result.value = None
            ELSE IsPct(result.value, total[1], total[2] * Cardinality(own))

\* the Course has one Enrollment with attendance 1 of 2 and one whose row has
\* 0 classes: the average is 50.0 (a truncating division would give 0.0, and
\* counting the empty row would give 25.0)
C29_Witness ==
    /\ result.op = "course_class_average_attendance_pct"
    /\ result.value = Value(5000)
    /\ \E a, b \in tx.attendance :
          /\ a.total_classes = 2
          /\ a.attended_classes = 1
          /\ b.total_classes = 0
          /\ \A r \in {a, b} :
                \E e \in tx.enrollments :
                    e.id = r.enrollment_id /\ e.course_id = result.course_id

\* a step in which a list or analytics call returns
ReadStep == result' # result /\ result' # NoResult

\* C30: the analytics and list operations (get_student_enrollment_summaries,
\* course_class_average_marks_pct, course_class_average_attendance_pct,
\* find_at_risk, list_students, list_courses, list_enrollments,
\* list_marks_for_enrollment) are read-only: the call leaves the session's
\* view and its pending deletions as they were, and the store is the same
\* after the boundary that made the call has committed.
C30_ReadsWriteNothing ==
    /\ [][ReadStep => tx' = tx /\ deleted' = deleted /\ db' = db]_vars
    /\ [][CommitStep => db' = db /\ ~last'.wrote /\ last'.deleted = NoDeletes]_vars
    /\ [](tx = db /\ deleted = NoDeletes)

\* a boundary in which find_at_risk returned an entry has committed, on a
\* store that holds Attendance and Marks
C30_Witness ==
    /\ session = "closed"
    /\ result.op = "find_at_risk"
    /\ Len(result.value) > 0
    /\ db.attendance # {}
    /\ db.marks # {}

----------------------------------------------------------------------------
(* The list operations *)

\* the list holds every row of the set, each once
ListsEach(list, rows) ==
    /\ Len(list) = Cardinality(rows)
    /\ {list[i] : i \in 1..Len(list)} = rows

\* C31: list_students and list_courses return every row of the store exactly
\* once, in ascending order of roll number and of code respectively;
\* list_enrollments and list_marks_for_enrollment return every matching row
\* exactly once, in strictly descending order of id.
C31_ListsCompleteAndOrdered ==
    /\ result.op = "list_students" =>
          /\ ListsEach(result.value, db.students)
          /\ \A i, j \in 1..Len(result.value) :
                i < j => StrLess(result.value[i].roll_no, result.value[j].roll_no)
    /\ result.op = "list_courses" =>
          /\ ListsEach(result.value, db.courses)
          /\ \A i, j \in 1..Len(result.value) :
                i < j => StrLess(result.value[i].code, result.value[j].code)
    /\ result.op = "list_enrollments" =>
          /\ ListsEach(result.value, db.enrollments)
          /\ \A i, j \in 1..Len(result.value) :
                i < j => result.value[i].id > result.value[j].id
    /\ result.op = "list_marks_for_enrollment" =>
          /\ ListsEach(result.value,
                       {m \in db.marks : m.enrollment_id = result.enrollment_id})
          /\ \A i, j \in 1..Len(result.value) :
                i < j => result.value[i].id > result.value[j].id

\* list_students returned Student 2 ("X") before Student 1 ("x"): the order is
\* that of the roll numbers, not of the ids
C31_Witness ==
    /\ result.op = "list_students"
    /\ Len(result.value) = 2
    /\ result.value[1].id = 2
    /\ result.value[1].roll_no = <<"X">>
    /\ result.value[2].roll_no = <<"x">>

----------------------------------------------------------------------------
(* Two transactions on one database file: the application's boundary and the
   boundary of another process (a second instance, or seed.py).  The other
   process runs the lookups of one operation, and later its flush and commit.
   The store serialises writers: while one transaction has written and not
   yet committed, the flush of the other fails ("database is locked") or
   waits until the first has ended. *)

Looked(op, args, none) ==
    [at |-> "looked", op |-> op, args |-> args, none |-> none, err |-> NoError]

Done(p, err) == [p EXCEPT !.at = "done", !.err = err]

\* The other process enters a boundary and its operation passes its lookups on
\* the committed store: create_student has none, enroll_student finds the
\* student and the course, set_attendance finds the enrollment, accepts the
\* values and reads enrollment.attendance
PeerLooks ==
    /\ pc = "ready"
    /\ peer.at = "idle"
    /\ \/ \E roll_no \in RollInputs, name \in NameInputs :
             peer' = Looked("create_student", <<roll_no, name>>, TRUE)
       \/ \E s \in Ids(db.students), c \in Ids(db.courses) :
             peer' = Looked("enroll_student", <<s, c>>, TRUE)
       \/ \E e \in Ids(db.enrollments), total \in 0..MaxClasses,
             attended \in 0..MaxClasses :
             /\ attended <= total
             /\ peer' = Looked("set_attendance", <<e, total, attended>>,
                               AttendanceRow(db, e) = {})
    /\ UNCHANGED <<db, tx, deleted, session, ops, raised, last, pc, run, legacy,
                   dialect, result>>

\* variant: the store has no unique index, every INSERT is accepted
PeerFlushUnchecked(st, p) ==
    CASE p.op = "create_student" ->
           create_student_unchecked(st, NoDeletes, p.args[1], p.args[2])
      [] p.op = "enroll_student" ->
           enroll_student_unchecked(st, NoDeletes, p.args[1], p.args[2])
      [] p.op = "set_attendance" ->
           IF p.none
           THEN Returns([st EXCEPT !.attendance = @ \cup
                            {Attendance(NextId(st.attendance), p.args[1],
                                        p.args[2], p.args[3])}], NoDeletes)
           ELSE set_attendance(st, NoDeletes, p.args[1], p.args[2], p.args[3])

\* session.flush() of the other process, on the store as it is now: the
\* INSERT is checked by the unique indexes; set_attendance that had read
\* `attendance is None` INSERTs, and its IntegrityError is not caught
PeerFlush(st, p) ==
    CASE p.op = "create_student" ->
           create_student(st, NoDeletes, p.args[1], p.args[2])
      [] p.op = "enroll_student" ->
           enroll_student(st, NoDeletes, p.args[1], p.args[2])
      [] p.op = "set_attendance" ->
           IF p.none /\ AttendanceRow(st, p.args[1]) # {}
           THEN Raises(st, NoDeletes, IntegrityFailure)
           ELSE set_attendance(st, NoDeletes, p.args[1], p.args[2], p.args[3])

WithinRaceBounds(st) ==
    /\ Ids(st.students) \subseteq 1..MaxStudentId
    /\ Ids(st.enrollments) \subseteq 1..MaxEnrollId
    /\ Ids(st.attendance) \subseteq 1..(MaxAttId + 1)

\* The other process flushes and commits while the application's boundary
\* holds no uncommitted write; the application reads the committed rows
PeerWrites ==
    /\ peer.at = "looked"
    /\ tx = db
    /\ deleted = NoDeletes
    /\ LET r == PeerFlush(db, peer)
       IN  IF r.err = NoError
           THEN /\ WithinRaceBounds(r.st)
                /\ db' = r.st
                /\ tx' = r.st
                /\ peer' = Done(peer, NoError)
           ELSE /\ peer' = Done(peer, r.err)
                /\ UNCHANGED <<db, tx>>
    /\ UNCHANGED <<deleted, session, ops, raised, last, pc, run, legacy, dialect,
                   result>>

\* The application's boundary has written and not committed: the flush of the
\* other process gives up with "database is locked"
PeerLocked ==
    /\ peer.at = "looked"
    /\ tx # db
    /\ peer' = Done(peer, StoreFailure)
    /\ UNCHANGED <<db, tx, deleted, session, ops, raised, last, pc, run, legacy,
                   dialect, result>>

\* the boundary of the other process is over
PeerEnds ==
    /\ peer.at = "done"
    /\ peer' = NoPeer
    /\ UNCHANGED <<db, tx, deleted, session, ops, raised, last, pc, run, legacy,
                   dialect, result>>

\* one Student and one Course are registered
Registered ==
    [EmptyStore EXCEPT !.students = {Student(1, <<"x">>, <<"n">>)},
                       !.courses = {Course(1, <<"C">>, <<"n">>)}]

InitRace ==
    /\ db = Registered
    /\ tx = Registered
    /\ deleted = NoDeletes
    /\ session = "closed"
    /\ ops = 0
    /\ raised = NoError
    /\ last = NoBoundary
    /\ pc = "ready"
    /\ run = 1
    /\ legacy = EmptyStore
    /\ dialect = "sqlite"
    /\ result = NoResult
    /\ peer = NoPeer

NextRace ==
    \/ Begin
    \/ Commit
    \/ StoreFails
    \/ CreateStudent
    \/ EnrollStudent
    \/ SetAttendance
    \/ PeerLooks
    \/ PeerWrites
    \/ PeerLocked
    \/ PeerEnds

SpecRace == InitRace /\ [][NextRace]_vars

\* C32: when two transactions interleave so that both have passed their
\* lookups before either commits (two create_student with one roll number,
\* two enroll_student for one pair, two first-time set_attendance for one
\* enrollment), the committed store never holds two rows with the same roll
\* number, course code, (student, course) pair or Attendance enrollment: the
\* transaction that comes second is refused and writes nothing.
C32_NoDuplicateCommitted ==
    /\ [](UniqueOk(db))
    /\ [][(peer.at = "looked" /\ peer'.at = "done" /\ peer'.err # NoError)
             => db' = db]_vars

\* the other process read `attendance is None`, the application then set and
\* committed the first Attendance of that enrollment, and the INSERT of the
\* other process was refused by the store
C32_Witness ==
    /\ peer.at = "done"
    /\ peer.op = "set_attendance"
    /\ peer.none
    /\ peer.err = IntegrityFailure
    /\ session = "closed"
    /\ raised = NoError
    /\ Cardinality(AttendanceRow(db, peer.args[1])) = 1

----------------------------------------------------------------------------
(* init_db beside a writer.  The database file has no unique index before
   the first init_db has completed, and create_student relies on the index
   alone: another process that adds a student while init_db holds no
   uncommitted write can add a roll number a second time, after the student
   pass has looked. *)

OtherWriter ==
    /\ run = 1
    /\ pc \in InitSteps
    /\ session = "active"
    /\ tx = db
    /\ deleted = NoDeletes
    /\ Cardinality(db.students) <= MaxLegacyStudents
    /\ \E roll_no \in LegacyRolls :
          LET r == create_student_unchecked(db, NoDeletes, roll_no, <<"n">>)
          IN  /\ db' = r.st
              /\ tx' = r.st
    /\ UNCHANGED <<deleted, session, ops, raised, last, pc, run, legacy, dialect,
                   result, peer>>

NextInstall ==
    \/ NextRecon
    \/ OtherWriter

SpecInstall == InitStart /\ [][NextInstall]_vars

\* C33: if rows still violate a uniqueness rule when the installation of the
\* constraints runs, the installation raises an error that leaves init_db (it
\* never completes silently), and nothing that the reconciliation changed in
\* the same boundary is committed.
C33_InstallFailsLoudly ==
    [][(pc = "indexes" /\ pc' # pc /\ ~UniqueOk(tx)) =>
          /\ pc' = "failed"
          /\ raised' # NoError
          /\ db' = db]_vars

\* on SQLite: a roll number was added a second time after the student pass,
\* a later pass merged rows, and the index creation failed: init_db has
\* raised and the merge is rolled back
C33_Witness ==
    /\ dialect = "sqlite"
    /\ pc = "failed"
    /\ raised = IntegrityFailure
    /\ last.wrote
    /\ ~UniqueOk(db)
    /\ db # legacy

\* on another dialect: init_db has completed without an error on a store
\* that holds a roll number twice
C33_CompletedSilently ==
    /\ dialect = "other"
    /\ run = 1
    /\ pc = "ready"
    /\ raised = NoError
    /\ ~UniqueRoll(db)

----------------------------------------------------------------------------
(* The enrollment pass after the student and course passes, under SpecRecon *)

KeeperStudent(st, roll_no) ==
    MinOf(Ids({s \in st.students : s.roll_no = roll_no}))

KeeperCourse(st, code) ==
    MinOf(Ids({c \in st.courses : c.code = code}))

\* C34: the passes run in the order student, course, attendance, enrollment
\* and the enrollment pass works on what the earlier passes left: when two
\* Students with one roll number, or two Courses with one code, each have an
\* Enrollment for the same counterpart, the keeper has after the run exactly
\* one Enrollment for the pair, and the Marks of both Enrollments are on it.
C34_MergedPairsCollapse ==
    /\ [][pc' # pc =>
            <<pc, pc'>> \in {<<"boot", "students">>, <<"students", "courses">>,
                             <<"courses", "attendance">>,
                             <<"attendance", "enrollments">>,
                             <<"enrollments", "indexes">>, <<"indexes", "ready">>,
                             <<"indexes", "failed">>, <<"ready", "boot">>}]_vars
    /\ [](  (run = 1 /\ pc \in {"indexes", "ready"}) =>
            \A e1 \in legacy.enrollments, e2 \in legacy.enrollments :
              \A s1 \in legacy.students, s2 \in legacy.students :
                \A c1 \in legacy.courses, c2 \in legacy.courses :
                  (/\ e1.id < e2.id
                   /\ s1.id = e1.student_id /\ s2.id = e2.student_id
                   /\ c1.id = e1.course_id /\ c2.id = e2.course_id
                   /\ s1.roll_no = s2.roll_no
                   /\ c1.code = c2.code
                   /\ (s1 # s2 \/ c1 # c2)) =>
                      LET keeper == KeeperStudent(legacy, s1.roll_no)
                          course == KeeperCourse(legacy, c1.code)
                          kept == {e \in tx.enrollments :
                                      /\ e.student_id = keeper
                                      /\ e.course_id = course}
                      IN  /\ Cardinality(kept) = 1
                          /\ \A m \in legacy.marks :
                                m.enrollment_id \in {e1.id, e2.id} =>
                                    \E n \in tx.marks, k \in kept :
                                        /\ n.id = m.id
                                        /\ n.enrollment_id = k.id
                                        /\ n.assessment = m.assessment
                                        /\ n.marks_obtained = m.marks_obtained
                                        /\ n.max_marks = m.max_marks)

\* Students 1 and 2 with one roll number were each enrolled in Course 1, each
\* Enrollment with a Mark: the committed run left Student 1 with Enrollment 1
\* and both Marks on it
C34_Witness ==
    /\ run = 1
    /\ pc = "ready"
    /\ Cardinality(legacy.students) = 2
    /\ ~UniqueRoll(legacy)
    /\ legacy.enrollments = {Enrollment(1, 1, 1), Enrollment(2, 2, 1)}
    /\ {m.enrollment_id : m \in legacy.marks} = {1, 2}
    /\ db.enrollments = {Enrollment(1, 1, 1)}
    /\ Cardinality(db.marks) = 2
    /\ \A m \in db.marks : m.enrollment_id = 1

\* C35: when the enrollment pass merges a group of three or more Enrollments
\* in which the keeper has no Attendance and two or more duplicates each have
\* one, the keeper has afterwards exactly one Attendance row, whose
\* total_classes is the maximum of the group's totals and whose
\* attended_classes is the maximum of the group's attended values clamped to
\* that total.
C35_GroupAttendanceMerged ==
    [][(pc = "enrollments" /\ pc' = "indexes") =>
        \A e \in tx.enrollments :
            LET group == {x \in tx.enrollments : /\ x.student_id = e.student_id
                                                 /\ x.course_id = e.course_id}
                atts == {a \in tx.attendance : a.enrollment_id \in Ids(group)}
                total == MaxOf({a.total_classes : a \in atts})
                attended == MaxOf({a.attended_classes : a \in atts})
            IN  (/\ Cardinality(group) >= 3
                 /\ Lowest(e, group)
                 /\ AttendanceRows(tx, e.id) = {}
                 /\ Cardinality(atts) >= 2) =>
                    \E a \in tx'.attendance :
                        /\ AttendanceRows(tx', e.id) = {a}
                        /\ a.total_classes = total
                        /\ a.attended_classes = Min2(attended, total)]_vars

\* Enrollments 1, 2 and 3 of one pair, an Attendance row on Enrollment 2 and
\* one on Enrollment 3: the committed run kept Enrollment 1 and no Attendance
\* row at all
C35_Witness ==
    /\ run = 1
    /\ pc = "ready"
    /\ legacy.enrollments = {Enrollment(1, 1, 1), Enrollment(2, 1, 1),
                             Enrollment(3, 1, 1)}
    /\ {a.enrollment_id : a \in legacy.attendance} = {2, 3}
    /\ Cardinality(legacy.attendance) = 2
    /\ db.enrollments = {Enrollment(1, 1, 1)}
    /\ db.attendance = {}
    /\ UniqueOk(db)

----------------------------------------------------------------------------
(* The whole program on a store whose references are sound: init_db on a
   new SQLite file, or on a legacy one in which duplicate rows carry
   Enrollments, then the service layer *)

InitWhole ==
    /\ LegacyInit(MaxStartRows, 0)
    /\ dialect = "sqlite"
    /\ \/ legacy = EmptyStore
       \/ ~UniqueOk(legacy) /\ legacy.enrollments # {}

NextWhole ==
    \/ InitDb
    \/ ReconcileStudents
    \/ ReconcileCourses
    \/ ReconcileAttendance
    \/ ReconcileEnrollments
    \/ EnsureIndexes
    \/ Next

SpecWhole == InitWhole /\ [][NextWhole]_vars

----------------------------------------------------------------------------
(* What cleanup_duplicates leaves alone, under SpecRecon *)

\* the Student (Course) that the Student (Course) id of the store st is
\* merged into: the lowest id of its roll number (code), or itself
MergedStudent(st, id) ==
    IF Get(st.students, id) = {} THEN id
    ELSE KeeperStudent(st, RowById(st.students, id).roll_no)

MergedCourse(st, id) ==
    IF Get(st.courses, id) = {} THEN id
    ELSE KeeperCourse(st, RowById(st.courses, id).code)

\* e belongs to a dead Student or Course (its foreign keys are re-pointed), or
\* to a group of Enrollments of one merged (student, course) pair
EnrollmentMerged(st, e) ==
    \/ MergedStudent(st, e.student_id) # e.student_id
    \/ MergedCourse(st, e.course_id) # e.course_id
    \/ \E x \in st.enrollments :
          /\ x.id # e.id
          /\ MergedStudent(st, x.student_id) = MergedStudent(st, e.student_id)
          /\ MergedCourse(st, x.course_id) = MergedCourse(st, e.course_id)

\* the rows of the store st that are in no duplicate group and are no child
\* of a duplicate
Untouched(st) ==
    [students |->
        {s \in st.students :
            \A x \in st.students : x.roll_no = s.roll_no => x = s},
     courses |->
        {c \in st.courses : \A x \in st.courses : x.code = c.code => x = c},
     enrollments |-> {e \in st.enrollments : ~EnrollmentMerged(st, e)},
     attendance |->
        {a \in st.attendance :
            /\ \A x \in st.attendance : x.enrollment_id = a.enrollment_id => x = a
            /\ \A e \in st.enrollments :
                  e.id = a.enrollment_id => ~EnrollmentMerged(st, e)},
     marks |->
        {m \in st.marks :
            \A e \in st.enrollments :
                e.id = m.enrollment_id => ~EnrollmentMerged(st, e)}]

Within(part, st) ==
    /\ part.students \subseteq st.students
    /\ part.courses \subseteq st.courses
    /\ part.enrollments \subseteq st.enrollments
    /\ part.attendance \subseteq st.attendance
    /\ part.marks \subseteq st.marks

\* C37: cleanup_duplicates changes duplicates only: a row that is in no
\* duplicate group and is no child re-pointed from a deleted duplicate is in
\* the store with all its values after every pass (an Attendance row alone on
\* its Enrollment with attended_classes above total_classes is not clamped),
\* and on a store without duplicate groups the run changes nothing.
C37_OnlyDuplicatesTouched ==
    (run = 1 /\ pc # "failed") =>
        /\ Within(Untouched(legacy), tx)
        /\ Within(Untouched(legacy), db)
        /\ UniqueOk(legacy) => (tx = legacy /\ db = legacy /\ deleted = NoDeletes)

\* the committed run removed duplicates and left the Attendance row
\* (total 0, attended 1) of another Student's Enrollment as it was
C37_Witness ==
    /\ run = 1
    /\ pc = "ready"
    /\ db # legacy
    /\ \E a \in legacy.attendance :
          /\ a.attended_classes > a.total_classes
          /\ a \in Untouched(legacy).attendance
          /\ a \in db.attendance

----------------------------------------------------------------------------
(* Updates that keep the key: two Students and two Courses, and update
   calls that change the name *)

UpdateNames == {<<"n">>, <<"m">>}

InitUpdate ==
    /\ db = [EmptyStore EXCEPT
                !.students = {Student(1, <<"x">>, <<"n">>), Student(2, <<"X">>, <<"n">>)},
                !.courses = {Course(1, <<"C">>, <<"n">>), Course(2, <<"D">>, <<"n">>)}]
    /\ tx = db
    /\ deleted = NoDeletes
    /\ session = "closed"
    /\ ops = 0
    /\ raised = NoError
    /\ last = NoBoundary
    /\ pc = "ready"
    /\ run = 1
    /\ legacy = EmptyStore
    /\ dialect = "sqlite"
    /\ result = NoResult
    /\ peer = NoPeer

RenameStudent ==
    \E student_id \in StudentIds, roll_no \in RollInputs, name \in UpdateNames :
        Call(update_student(tx, deleted, student_id, roll_no, name))

RenameCourse ==
    \E course_id \in CourseIds, code \in CodeInputs, name \in UpdateNames :
        Call(update_course(tx, deleted, course_id, code, name))

NextUpdate ==
    \/ Begin
    \/ Commit
    \/ StoreFails
    \/ RenameStudent
    \/ RenameCourse
    \/ DeleteStudent

SpecUpdate == InitUpdate /\ [][NextUpdate]_vars

\* C38: update_student called with the Student's own roll number (blanks
\* around it or not), and update_course called with the Course's own code in
\* any letter case, raise nothing and store the other values passed; the
\* duplicate error is raised only when a different row holds the key.
C38_OwnKeyAccepted ==
    Callable =>
        /\ \A s \in tx.students, roll_no \in RollInputs, name \in UpdateNames :
              LET r == update_student(tx, deleted, s.id, roll_no, name)
              IN  /\ (Strip(roll_no) = s.roll_no /\ <<"student", s.id>> \notin deleted) =>
                        /\ r.err = NoError
                        /\ Get(r.st.students, s.id)
                              = {Student(s.id, s.roll_no, Strip(name))}
                  /\ r.err = RollExists =>
                        \E x \in tx.students :
                            x.id # s.id /\ x.roll_no = Strip(roll_no)
        /\ \A c \in tx.courses, code \in CodeInputs, name \in UpdateNames :
              LET r == update_course(tx, deleted, c.id, code, name)
              IN  /\ (Upper(Strip(code)) = c.code /\ <<"course", c.id>> \notin deleted) =>
                        /\ r.err = NoError
                        /\ Get(r.st.courses, c.id)
                              = {Course(c.id, c.code, Strip(name))}
                  /\ r.err = CodeExists =>
                        \E x \in tx.courses :
                            x.id # c.id /\ x.code = Upper(Strip(code))

\* Student 1 has been renamed under its roll number "x" and Course 1 under
\* its code "C", both committed
C38_Witness ==
    /\ session = "closed"
    /\ raised = NoError
    /\ Student(1, <<"x">>, <<"m">>) \in db.students
    /\ Course(1, <<"C">>, <<"m">>) \in db.courses
    /\ Cardinality(db.students) = 2

----------------------------------------------------------------------------
(* The order of the checks in the service functions, under Spec *)

\* C39: when several checks of a call would fail, the first in the code's
\* order decides the error: enroll_student reports the missing Student before
\* the missing Course; set_attendance reports the missing Enrollment before
\* any value, and a negative value before attended > total; add_mark reports
\* the missing Enrollment first, and max_marks <= 0 before marks_obtained
\* out of range.
C39_FirstFailingCheckDecides ==
    Callable =>
        /\ \A student_id \in StudentIds, course_id \in CourseIds :
              LET r == enroll_student(tx, deleted, student_id, course_id)
              IN  /\ Get(tx.students, student_id) = {} => r.err = StudentNotFound
                  /\ (Get(tx.students, student_id) # {}
                        /\ Get(tx.courses, course_id) = {}) => r.err = CourseNotFound
        /\ \A e \in EnrollIds, total \in ClassCounts, attended \in ClassCounts :
              LET r == set_attendance(tx, deleted, e, total, attended)
              IN  /\ Get(tx.enrollments, e) = {} => r.err = EnrollmentNotFound
                  /\ (Get(tx.enrollments, e) # {}
                        /\ (total < 0 \/ attended < 0)
                        /\ attended > total) => r.err = AttendanceNegative
        /\ \A e \in EnrollIds, assessment \in AssessInputs,
              obtained \in MarkValues, maximum \in MaxMarkValues :
              LET r == add_mark(tx, deleted, e, assessment, obtained, maximum)
              IN  /\ Get(tx.enrollments, e) = {} => r.err = EnrollmentNotFound
                  /\ (Get(tx.enrollments, e) # {}
                        /\ maximum <= 0
                        /\ (obtained < 0 \/ obtained > maximum)) =>
                            r.err = MaxMarksPositive

\* a set_attendance has been rejected for a negative value; in the store,
\* with Student 2, Course 2 and Enrollment 2 absent and Enrollment 1 present,
\* calls in which two checks fail raise the error of the first
C39_Witness ==
    /\ session = "closed"
    /\ raised = AttendanceNegative
    /\ Ids(db.students) = {1}
    /\ Ids(db.courses) = {1}
    /\ Ids(db.enrollments) = {1}
    /\ enroll_student(db, NoDeletes, 2, 2).err = StudentNotFound
    /\ set_attendance(db, NoDeletes, 2, 0 - 1, 1).err = EnrollmentNotFound
    /\ set_attendance(db, NoDeletes, 1, 0 - 1, 0).err = AttendanceNegative
    /\ add_mark(db, NoDeletes, 2, <<"q">>, 0 - 1, 0).err = EnrollmentNotFound
    /\ add_mark(db, NoDeletes, 1, <<"q">>, 0 - 1, 0).err = MaxMarksPositive

\* C40: a commit of a boundary that only deleted leaves every row outside
\* the deleted subtrees as it was and adds none: delete_student leaves every
\* Course, every other Student and every Enrollment, Attendance row and Mark
\* that is not the Student's; delete_course leaves every Student;
\* remove_enrollment leaves its Student and its Course.
C40_DeleteLeavesTheRest ==
    [][(CommitStep /\ tx = db) =>
        LET gone == Ids(EnrollmentsDeleted)
        IN  /\ db'.students =
                  {s \in db.students : <<"student", s.id>> \notin deleted}
            /\ db'.courses =
                  {c \in db.courses : <<"course", c.id>> \notin deleted}
            /\ {e \in db.enrollments : e.id \notin gone} \subseteq db'.enrollments
            /\ {a \in db.attendance : a.enrollment_id \notin gone}
                  \subseteq db'.attendance
            /\ {m \in db.marks : m.enrollment_id \notin gone
                                    /\ <<"mark", m.id>> \notin deleted}
                  \subseteq db'.marks
            /\ db'.enrollments \subseteq db.enrollments
            /\ db'.attendance \subseteq db.attendance
            /\ db'.marks \subseteq db.marks
            /\ DeletedIds(deleted, "course") = {} => db'.courses = db.courses
            /\ DeletedIds(deleted, "student") = {} => db'.students = db.students
            \* one call in the boundary: one Student, one Course or one
            \* Enrollment was deleted, with what belongs to it
            /\ ops = 1 =>
                  /\ Cardinality({d \in deleted : d[1] \in {"student", "course"}}) <= 1
                  /\ \A s \in DeletedIds(deleted, "student") :
                        {e \in db.enrollments : e.student_id # s}
                            \subseteq db'.enrollments
                  /\ \A c \in DeletedIds(deleted, "course") :
                        {e \in db.enrollments : e.course_id # c}
                            \subseteq db'.enrollments
                  /\ (\A d \in deleted : d[1] \notin {"student", "course"}) =>
                        /\ Cardinality(DeletedIds(deleted, "enrollment")) <= 1
                        /\ db'.students = db.students
                        /\ db'.courses = db.courses]_vars

\* a committed delete_student took one of two enrolled Students: the other
\* Student, the Course and the other Enrollment are in the store
C40_Witness ==
    /\ pc = "ready"
    /\ session = "closed"
    /\ raised = NoError
    /\ ~last.wrote
    /\ DeletedIds(last.deleted, "student") # {}
    /\ DeletedIds(last.deleted, "enrollment") # {}
    /\ DeletedIds(last.deleted, "course") = {}
    /\ Cardinality(db.students) = 1
    /\ Cardinality(db.enrollments) = 1
    /\ db.courses # {}

====
